---- MODULE Spec2Model ----
(***************************************************************************)
(* CompileScope of the template compiler: the symbol generators, the      *)
(* function-context stack, the element contexts, the namespace registry   *)
(* and the final assembly, as a state machine with one action per public  *)
(* operation.  Generated text is kept as sequences of text fragments (the *)
(* children of a SourceNode); symbols are strings built by concatenation, *)
(* as the code builds them.                                               *)
(***************************************************************************)
EXTENDS Integers, Sequences, FiniteSets, TLC

\* ------------------------------------------------------------------ bounds
MaxDepth == 2        \* function contexts on the stack
MaxNum == 1          \* highest counter value a generator reaches in the small specifications
MaxDeepNum == 10     \* highest counter value in the specifications about symbol texts
MaxUpdate == 2       \* statements in one function's update list
MaxElements == 1     \* open elements, over all function contexts
MaxNamespaces == 2   \* open namespaces
MaxBody == 1         \* nodes pushed to the module body
MaxWarnings == 2     \* warnings delivered before the last compile()
MaxCalls == 4        \* calls made on one instance, the constructor included
MaxInput == 4        \* characters of a tokenized expression
MaxStatements == 3   \* statements generated into one function body
MaxNodes == 2        \* syntax nodes constructed

\* --------------------------------------------------- inputs of the operations
Names == {"ns", "constructor"}
DigitNames == {"ns", "ns1"}
PlainNames == {"block", "iter"}
Injectors == {"", "injector"}
Values == {"host.props.items", "toString"}
UpdateChunks == {"updateBlock(scope.$_block0);"}
Bodies == {<< >>, <<"insert(injector, elem(\"p\"));">>}
Uris == {"http://www.w3.org/2000/svg", "http://www.w3.org/1999/xlink"}
ElementNames == {"div", "my-comp"}
ComponentNames == {"my-comp", "x-list"}
TagNames == {"div", "my-comp", "x-list", "x-missing"}
Offsets == {7, 21}
CompileOptions == {[cssScope |-> "e1x"]}
UsedSymbols == {"elem", "insert"}
UsedHelpers == {"emit", "setState"}
HelperNames == {"emit", "setState", "format"}
HelperOptions ==
    {[helpers |-> <<<<"./my-helpers.js", <<"emit", "format">>>>>>], [cssScope |-> "e1x"]}
ComponentOptions ==
    {[warn |-> TRUE], [warn |-> TRUE, removeUnusedImports |-> TRUE],
     [removeUnusedImports |-> TRUE]}

\* ------------------------------------------------------------- options
Host == "host"
ScopeOption == "scope"
Prefix == "$$"
Suffix == ""
Indent == "\t"

\* ------------------------------------------------- JavaScript objects as maps
\* A plain object {} used as a map: own properties are a function on strings;
\* `key in obj` also finds what Object.prototype supplies (all of them functions).
ObjectPrototypeKeys ==
    {"constructor", "hasOwnProperty", "isPrototypeOf", "propertyIsEnumerable",
     "toLocaleString", "toString", "valueOf"}

EmptyObject == [k \in {} |-> 0]

HasProperty(obj, key) == key \in DOMAIN obj \/ key \in ObjectPrototypeKeys

SetProperty(obj, key, value) ==
    [k \in DOMAIN obj \cup {key} |-> IF k = key THEN value ELSE obj[k]]

\* The number NaN: what ++ yields on a property that holds a function.
NaN == 0 - 1

Digit(d) ==
    CASE d = 0 -> "0" [] d = 1 -> "1" [] d = 2 -> "2" [] d = 3 -> "3" [] d = 4 -> "4"
      [] d = 5 -> "5" [] d = 6 -> "6" [] d = 7 -> "7" [] d = 8 -> "8" [] d = 9 -> "9"

\* String(num), as string concatenation converts a number
RECURSIVE NumberToString(_)
NumberToString(num) ==
    IF num = NaN THEN "NaN"
    ELSE IF num < 10 THEN Digit(num)
    ELSE NumberToString(num \div 10) \o Digit(num % 10)

\* -------------------------------------------------------- SymbolGenerator
\* this._symbols[name]++ : the property read, converted to a number, plus one
Increment(symbols, name) ==
    IF name \in DOMAIN symbols /\ symbols[name] # NaN THEN symbols[name] + 1 ELSE NaN

\* the _symbols object after generate(name)
generateSymbols(symbols, name) ==
    IF HasProperty(symbols, name)
    THEN SetProperty(symbols, name, Increment(symbols, name))
    ELSE SetProperty(symbols, name, 0)

\* const num = this._symbols[name], read after the update
generateNum(symbols, name) == generateSymbols(symbols, name)[name]

\* the three generators: prefix + name + suffix
globalText(name, num) == Prefix \o name \o Suffix \o NumberToString(num)
scopeText(name, num) == ScopeOption \o ".$_" \o name \o NumberToString(num)
plainText(name, num) == name \o NumberToString(num)

\* ------------------------------------------------------------------ state
VARIABLES
    globalSymbols,    \* globalSymbols._symbols
    scopeSymbols,     \* scopeSymbols._symbols
    func,             \* the function contexts, outermost first; the last is this.func
    body,             \* this.body
    namespacesMap,    \* uri -> constant, in insertion order: <<uri, symbol>> pairs
    namespaceStack,   \* this.namespaceStack
    componentsMap,    \* tag name -> import record, in insertion order
    partialsMap,      \* partial name -> declaration, in insertion order
    runtimeSymbols,   \* this.runtimeSymbols, in insertion order
    usedHelpers,      \* this.usedHelpers, in insertion order
    usedStore,        \* this.usedStore
    warned,           \* this._warned
    options,          \* this.options: the part that varies between compilations
    warnings,         \* what the warn callback was called with, in order
    ret,              \* the operation last called and what it returned
    issued,           \* history: every symbol handed out, and how many
    defaultOptions,   \* the module-level defaultOptions record, shared by all instances
    instances,        \* the CompileScope instances that are not running, and the call logs
    parser,           \* the expression tokenizer: input, pos and the tokens finished
    ast               \* the syntax nodes constructed, in construction order

vars == <<globalSymbols, scopeSymbols, func, body, namespacesMap, namespaceStack,
          componentsMap, partialsMap, runtimeSymbols, usedHelpers, usedStore, warned,
          options, warnings, ret, issued, defaultOptions, instances, parser, ast>>

\* the state of one CompileScope instance
instanceVars == <<globalSymbols, scopeSymbols, func, body, namespacesMap, namespaceStack,
                  componentsMap, partialsMap, runtimeSymbols, usedHelpers, usedStore, warned,
                  options, warnings, ret, issued>>

scopeVars == <<globalSymbols, scopeSymbols, func, body, namespacesMap, namespaceStack>>
registryVars == <<componentsMap, partialsMap, runtimeSymbols, usedHelpers, usedStore,
                  warned, options, warnings>>

\* ------------------------------------------------------------ FunctionContext
NewFunctionContext(symbol, injector) ==
    [symbol |-> symbol,
     localSymbols |-> EmptyObject,
     updateSymbols |-> EmptyObject,
     updateDeclarations |-> EmptyObject,
     injector |-> injector,
     scopeArg |-> << >>,
     update |-> << >>,
     output |-> << >>,
     element |-> << >>,
     aliases |-> EmptyObject] \* history: value -> the aliases updateSymbol returned for it

HasFunc == Len(func) > 0
Current == func[Len(func)]
WithCurrent(ctx) == [func EXCEPT ![Len(func)] = ctx]

\* markScopeAsUsed() applied to the stack of function contexts
markScopeAsUsedAncestors(stack) ==
    [i \in 1..Len(stack) |-> [stack[i] EXCEPT !.scopeArg =
        IF Len(stack[i].scopeArg) = 0 THEN <<", " \o ScopeOption>> ELSE @]]

markScopeAsUsedNever(stack) == stack

markScopeAsUsed(stack) ==
    IF Len(stack) > 0 /\ Len(stack[Len(stack)].scopeArg) = 0
    THEN [stack EXCEPT ![Len(stack)].scopeArg = <<", " \o ScopeOption>>]
    ELSE stack


\* history of the symbols handed out: the texts, how many were handed out, the
\* <symbol>Update names emitted, the number of requests per logical name, and the
\* constant each namespace URI got at its first entry
NoIssue == [global |-> {}, nGlobal |-> 0, scope |-> {}, nScope |-> 0,
            update |-> {}, nUpdate |-> 0,
            reqGlobal |-> EmptyObject, reqScope |-> EmptyObject,
            ns |-> EmptyObject]

Requests(req, name) == IF name \in DOMAIN req THEN req[name] ELSE 0

IssueGlobal(name, text) ==
    [issued EXCEPT !.global = @ \cup {text}, !.nGlobal = @ + 1,
                   !.reqGlobal = SetProperty(@, name, Requests(@, name) + 1)]

IssueScope(name, text) ==
    [issued EXCEPT !.scope = @ \cup {text}, !.nScope = @ + 1,
                   !.reqScope = SetProperty(@, name, Requests(@, name) + 1)]

\* the options that vary between compilations; defaultOptions sets none of them, so
\* each reads as undefined: no pruning, no style scope, no warn callback
\* defaultOptions.helpers: module URL -> helper names, in key order
DefaultHelpers == <<<<"endorphin/helpers.js", <<"emit", "setState", "setStore">>>>>>

DefaultOptions ==
    [removeUnusedImports |-> FALSE, cssScope |-> "", warn |-> FALSE,
     helpers |-> DefaultHelpers]

\* Object.assign(target, source): the own properties of source written over target
ObjectAssign(target, source) ==
    [k \in DOMAIN target \cup DOMAIN source |->
        IF k \in DOMAIN source THEN source[k] ELSE target[k]]

\* this.options after `Object.assign({}, defaultOptions, options)`
constructorOptions(defaults, opts) == ObjectAssign(ObjectAssign(EmptyObject, defaults), opts)

\* defaultOptions after the constructor, had it assigned into the shared record
constructorDefaultsAssigned(defaults, opts) == ObjectAssign(defaults, opts)

\* defaultOptions after the constructor: the target of Object.assign is a fresh object
constructorDefaults(defaults, opts) == defaults

\* the symbol counters of a new instance, had the generators been shared
constructorSymbolsShared(symbols) == symbols

\* the symbol counters of a new instance: `new SymbolGenerator(...)`
constructorSymbols(symbols) == EmptyObject

\* no instance besides the running one, nothing logged
NoInstances == [parked |-> << >>, log |-> << >>, mode |-> "live", at |-> 0]

\* no expression being tokenized
NoParser == [input |-> << >>, pos |-> 0, tokens |-> << >>, state |-> "idle"]

Init ==
    /\ defaultOptions = DefaultOptions
    /\ instances = NoInstances
    /\ parser = NoParser
    /\ ast = << >>
    /\ globalSymbols = EmptyObject
    /\ scopeSymbols = EmptyObject
    /\ func = << >>
    /\ body = << >>
    /\ namespacesMap = << >>
    /\ namespaceStack = << >>
    /\ componentsMap = << >>
    /\ partialsMap = << >>
    /\ runtimeSymbols = << >>
    /\ usedHelpers = << >>
    /\ usedStore = {}
    /\ warned = {}
    /\ options = DefaultOptions
    /\ warnings = << >>
    /\ ret = [op |-> "new"]
    /\ issued = NoIssue

\* new CompileScope(opts)
New(opts) ==
    /\ options' = constructorOptions(defaultOptions, opts)
    /\ defaultOptions' = constructorDefaults(defaultOptions, opts)
    /\ globalSymbols' = constructorSymbols(globalSymbols)
    /\ scopeSymbols' = constructorSymbols(scopeSymbols)
    /\ func' = << >>
    /\ body' = << >>
    /\ namespacesMap' = << >>
    /\ namespaceStack' = << >>
    /\ componentsMap' = << >>
    /\ partialsMap' = << >>
    /\ runtimeSymbols' = << >>
    /\ usedHelpers' = << >>
    /\ usedStore' = {}
    /\ warned' = {}
    /\ warnings' = << >>
    /\ ret' = [op |-> "new"]
    /\ issued' = NoIssue

\* ----------------------------------------------------------- symbol requests
\* globalSymbol(name)
GlobalSymbol(name) ==
    LET text == globalText(name, generateNum(globalSymbols, name)) IN
    /\ globalSymbols' = generateSymbols(globalSymbols, name)
    /\ ret' = [op |-> "globalSymbol", name |-> name, val |-> text]
    /\ issued' = IssueGlobal(name, text)
    /\ UNCHANGED <<scopeSymbols, func, body, namespacesMap, namespaceStack, registryVars>>

\* scopeSymbol(name); the generator's prefix reads the `scope` accessor as well
ScopeSymbol(name) ==
    LET text == scopeText(name, generateNum(scopeSymbols, name)) IN
    /\ func' = markScopeAsUsed(func)
    /\ scopeSymbols' = generateSymbols(scopeSymbols, name)
    /\ ret' = [op |-> "scopeSymbol", name |-> name, val |-> text]
    /\ issued' = IssueScope(name, text)
    /\ UNCHANGED <<globalSymbols, body, namespacesMap, namespaceStack, registryVars>>

\* get scope()
ReadScope ==
    /\ func' = markScopeAsUsed(func)
    /\ ret' = [op |-> "scope", val |-> ScopeOption]
    /\ UNCHANGED <<globalSymbols, scopeSymbols, body, namespacesMap, namespaceStack,
                   registryVars, issued>>

\* localSymbol(name)
LocalSymbol(name) ==
    /\ HasFunc
    /\ func' = WithCurrent([Current EXCEPT
                   !.localSymbols = generateSymbols(@, name)])
    /\ ret' = [op |-> "localSymbol", name |-> name,
               val |-> plainText(name, generateNum(Current.localSymbols, name))]
    /\ UNCHANGED <<globalSymbols, scopeSymbols, body, namespacesMap, namespaceStack,
                   registryVars, issued>>

\* ------------------------------------------------------------ update phase
\* the update list after pushUpdate, had the chunk been put at the front
pushUpdateListFront(update, chunk) == <<chunk>> \o update

\* the update list after pushUpdate: `this.func.update.push(chunk)`
pushUpdateList(update, chunk) == Append(update, chunk)

\* pushUpdate(chunk)
PushUpdate(chunk) ==
    /\ HasFunc
    /\ func' = WithCurrent([Current EXCEPT !.update = pushUpdateList(@, chunk)])
    /\ ret' = [op |-> "pushUpdate", chunk |-> chunk]
    /\ UNCHANGED <<globalSymbols, scopeSymbols, body, namespacesMap, namespaceStack,
                   registryVars, issued>>

\* what reading a property that only Object.prototype supplies gives: a function
NativeFunction == "function () { [native code] }"

Declaration(symbol, value) == "const " \o symbol \o " = " \o value \o ";"

\* the update list, had the declaration been added at the end
unshiftDeclarationPushed(update, declaration) == Append(update, declaration)

\* `this.func.update.unshift(...)`
unshiftDeclaration(update, declaration) == <<declaration>> \o update

\* the function context after updateSymbol(name, value)
updateSymbolContext(ctx, name, value) ==
    IF ~HasProperty(ctx.updateDeclarations, value)
    THEN LET symbol == plainText(name, generateNum(ctx.updateSymbols, name)) IN
         [ctx EXCEPT !.updateDeclarations = SetProperty(@, value, symbol),
                     !.updateSymbols = generateSymbols(@, name),
                     !.update = unshiftDeclaration(@, Declaration(symbol, value))]
    ELSE ctx

\* this.func.updateDeclarations[value]
GetDeclaration(ctx, value) ==
    IF value \in DOMAIN ctx.updateDeclarations
    THEN ctx.updateDeclarations[value]
    ELSE NativeFunction

\* updateSymbol(name, value)
UpdateSymbol(name, value) ==
    /\ HasFunc
    /\ LET ctx == updateSymbolContext(Current, name, value)
           alias == GetDeclaration(ctx, value)
       IN /\ func' = WithCurrent([ctx EXCEPT !.aliases =
                         SetProperty(@, value,
                             (IF value \in DOMAIN @ THEN @[value] ELSE {}) \cup {alias})])
          /\ ret' = [op |-> "updateSymbol", name |-> name, value |-> value, val |-> alias]
    /\ UNCHANGED <<globalSymbols, scopeSymbols, body, namespacesMap, namespaceStack,
                   registryVars, issued>>

\* ---------------------------------------------------------------- functions
\* enterFunction(name, injectorSymbol)
EnterFunction(name, injector) ==
    LET symbol == globalText(name, generateNum(globalSymbols, name)) IN
    /\ globalSymbols' = generateSymbols(globalSymbols, name)
    /\ func' = Append(func, NewFunctionContext(symbol, injector))
    /\ ret' = [op |-> "enterFunction", name |-> name, val |-> symbol]
    /\ issued' = IssueGlobal(name, symbol)
    /\ UNCHANGED <<scopeSymbols, body, namespacesMap, namespaceStack, registryVars>>

\* format(chunks, indent): the chunks, one per line
RECURSIVE Format(_, _)
Format(chunks, indent) ==
    IF Len(chunks) = 0 THEN << >>
    ELSE IF Len(chunks) = 1 THEN chunks
    ELSE <<Head(chunks), "\n" \o indent>> \o Format(Tail(chunks), indent)

\* [`${this.host}${func.injector ? `, ${func.injector}` : ''}`, func.scopeArg]
FunctionArgs(ctx) ==
    <<Host \o (IF ctx.injector # "" THEN ", " \o ctx.injector ELSE "")>> \o ctx.scopeArg

UpdateName(symbol) == symbol \o "Update"

\* the SourceNode exitFunction(body) returns for the context it closes
exitFunctionOutputAlways(ctx, chunks) ==
    <<"function ", ctx.symbol, "(">> \o FunctionArgs(ctx) \o <<") {\n" \o Indent>>
        \o Format(chunks, Indent)
        \o <<"\n" \o Indent, "return ", UpdateName(ctx.symbol), ";\n}\n\n",
             "function ", UpdateName(ctx.symbol), "(">>
        \o FunctionArgs(ctx) \o <<") {\n" \o Indent>>
        \o Format(ctx.update, Indent) \o <<"\n}">>

exitFunctionOutput(ctx, chunks) ==
    <<"function ", ctx.symbol, "(">> \o FunctionArgs(ctx) \o <<") {\n" \o Indent>>
        \o Format(chunks, Indent)
        \o (IF Len(ctx.update) > 0
            THEN <<"\n" \o Indent, "return ", UpdateName(ctx.symbol), ";\n}\n\n",
                   "function ", UpdateName(ctx.symbol), "(">>
                 \o FunctionArgs(ctx) \o <<") {\n" \o Indent>>
                 \o Format(ctx.update, Indent) \o <<"\n}">>
            ELSE <<"\n}">>)

\* the current function after an exit that forgets every enclosing function
exitFunctionParentRoot(stack) == << >>

\* `this.func = this.func.parent`
exitFunctionParent(stack) == SubSeq(stack, 1, Len(stack) - 1)

\* exitFunction(body)
ExitFunction(chunks) ==
    /\ HasFunc
    /\ func' = exitFunctionParent(func)
    /\ ret' = [op |-> "exitFunction", val |-> exitFunctionOutput(Current, chunks),
               ctx |-> Current, chunks |-> chunks]
    /\ issued' = IF Len(Current.update) > 0
                 THEN [issued EXCEPT !.update = @ \cup {UpdateName(Current.symbol)},
                                     !.nUpdate = @ + 1]
                 ELSE issued
    /\ UNCHANGED <<globalSymbols, scopeSymbols, body, namespacesMap, namespaceStack,
                   registryVars>>

\* ----------------------------------------------------------------- elements
\* componentsMap.has(tagName)
isComponent(tagName) == \E i \in 1..Len(componentsMap) : componentsMap[i].name = tagName

\* new ElementContext(name, expr, stats, scope, isComponent)
ElementContext(name, stats) ==
    [name |-> name, stats |-> stats, isComponent |-> isComponent(name)]

Stats == [staticContent : BOOLEAN, slotContent : BOOLEAN]

\* get element(): the innermost open element of the nearest function context that has
\* one; << >> stands for undefined
RECURSIVE ElementOf(_)
ElementOf(stack) ==
    IF Len(stack) = 0 THEN << >>
    ELSE IF Len(stack[Len(stack)].element) > 0
         THEN <<stack[Len(stack)].element[Len(stack[Len(stack)].element)]>>
         ELSE ElementOf(SubSeq(stack, 1, Len(stack) - 1))

\* the parent chain of the element `get element()` finds
RECURSIVE ElementParentOf(_)
ElementParentOf(stack) ==
    IF Len(stack) = 0 THEN << >>
    ELSE IF Len(stack[Len(stack)].element) > 0
         THEN SubSeq(stack[Len(stack)].element, 1, Len(stack[Len(stack)].element) - 1)
         ELSE ElementParentOf(SubSeq(stack, 1, Len(stack) - 1))

\* enterElement(name, expr, stats)
EnterElement(name, stats) ==
    /\ HasFunc
    /\ func' = WithCurrent([Current EXCEPT !.element = Append(@, ElementContext(name, stats))])
    /\ ret' = [op |-> "enterElement", name |-> name]
    /\ UNCHANGED <<globalSymbols, scopeSymbols, body, namespacesMap, namespaceStack,
                   registryVars, issued>>

\* exitElement(): finalizes this.element and makes its parent the current function's
\* open element
ExitElement ==
    /\ HasFunc
    /\ Len(ElementOf(func)) > 0
    /\ func' = WithCurrent([Current EXCEPT !.element = ElementParentOf(func)])
    /\ ret' = [op |-> "exitElement", val |-> ElementOf(func)[1],
               own |-> Len(Current.element) > 0]
    /\ UNCHANGED <<globalSymbols, scopeSymbols, body, namespacesMap, namespaceStack,
                   registryVars, issued>>

\* inComponent()
inComponent(stack) ==
    Len(ElementOf(stack)) > 0 /\ isComponent(ElementOf(stack)[1].name)

\* the value requiresInjector() returns
requiresInjectorElementOnly(stack) ==
    LET element == stack[Len(stack)].element IN
    IF Len(element) > 0
    THEN \/ inComponent(stack)
         \/ ~element[Len(element)].stats.staticContent
         \/ element[Len(element)].stats.slotContent
    ELSE FALSE

requiresInjector(stack) ==
    LET element == stack[Len(stack)].element IN
    IF Len(element) > 0
    THEN \/ inComponent(stack)
         \/ ~element[Len(element)].stats.staticContent
         \/ element[Len(element)].stats.slotContent
    ELSE stack[Len(stack)].injector # ""

RequiresInjector ==
    /\ HasFunc
    /\ ret' = [op |-> "requiresInjector", val |-> requiresInjector(func)]
    /\ UNCHANGED <<scopeVars, registryVars, issued>>

\* the handles an element context gives out
ElementLocalInjector(element) == "injector(" \o element.name \o ")"
ElementScopeInjector(element) == ScopeOption \o ".$_injector(" \o element.name \o ")"

\* localInjector()
LocalInjector ==
    /\ HasFunc
    /\ ret' = [op |-> "localInjector",
               val |-> IF Len(Current.element) > 0
                       THEN ElementLocalInjector(Current.element[Len(Current.element)])
                       ELSE Current.injector]
    /\ UNCHANGED <<scopeVars, registryVars, issued>>

\* the function contexts after scopeInjector()
scopeInjectorStackNoMark(stack) == stack

scopeInjectorStack(stack) ==
    IF Len(stack[Len(stack)].element) > 0
    THEN markScopeAsUsed(stack)
    ELSE stack

\* scopeInjector()
ScopeInjector ==
    /\ HasFunc
    /\ func' = scopeInjectorStack(func)
    /\ ret' = [op |-> "scopeInjector",
               val |-> IF Len(Current.element) > 0
                       THEN ElementScopeInjector(Current.element[Len(Current.element)])
                       ELSE Current.injector,
               element |-> Len(Current.element) > 0]
    /\ UNCHANGED <<globalSymbols, scopeSymbols, body, namespacesMap, namespaceStack,
                   registryVars, issued>>

\* --------------------------------------------------------------- namespaces
NamespaceIndex(map, uri) == {i \in 1..Len(map) : map[i][1] = uri}

\* the namespace map after enterNamespace(uri)
enterNamespaceMapAlways(map, uri, symbol) == Append(map, <<uri, symbol>>)

enterNamespaceMap(map, uri, symbol) ==
    IF NamespaceIndex(map, uri) # {} THEN map ELSE Append(map, <<uri, symbol>>)

\* enterNamespace(uri)
EnterNamespace(uri) ==
    LET has == NamespaceIndex(namespacesMap, uri) # {}
        fresh == globalText("ns", generateNum(globalSymbols, "ns"))
        symbol == IF has THEN namespacesMap[CHOOSE i \in NamespaceIndex(namespacesMap, uri) : TRUE][2]
                  ELSE fresh
    IN
    /\ globalSymbols' = IF has THEN globalSymbols ELSE generateSymbols(globalSymbols, "ns")
    /\ issued' = [(IF has THEN issued ELSE IssueGlobal("ns", fresh)) EXCEPT !.ns =
                     IF uri \in DOMAIN @ THEN @ ELSE SetProperty(@, uri, symbol)]
    /\ namespacesMap' = enterNamespaceMap(namespacesMap, uri, fresh)
    /\ namespaceStack' = Append(namespaceStack, symbol)
    /\ ret' = [op |-> "enterNamespace", uri |-> uri, val |-> symbol]
    /\ UNCHANGED <<scopeSymbols, func, body, registryVars>>

\* the namespace stack after an exit that closes every open namespace
exitNamespaceStackCleared(stack) == << >>

\* `this.namespaceStack.pop()`: nothing to pop from an empty array
exitNamespaceStack(stack) ==
    IF Len(stack) > 0 THEN SubSeq(stack, 1, Len(stack) - 1) ELSE stack

\* exitNamespace()
ExitNamespace ==
    /\ namespaceStack' = exitNamespaceStack(namespaceStack)
    /\ ret' = [op |-> "exitNamespace"]
    /\ UNCHANGED <<globalSymbols, scopeSymbols, func, body, namespacesMap, registryVars,
                   issued>>

\* get namespace()
namespace == IF Len(namespaceStack) > 0 THEN <<namespaceStack[Len(namespaceStack)]>> ELSE << >>

\* ---------------------------------------------------------------- registries
RuntimeSymbols ==
    {"get", "mountBlock", "updateBlock", "mountIterator", "updateIterator",
     "mountKeyIterator", "updateKeyIterator", "createInjector", "block", "setAttribute",
     "addClass", "finalizeAttributes", "addEvent", "addStaticEvent", "finalizeEvents",
     "mountSlot", "setRef", "setStaticRef", "finalizeRefs", "createComponent",
     "mountComponent", "updateComponent", "mountInnerHTML", "updateInnerHTML",
     "mountPartial", "updatePartial", "elem", "elemWithText", "elemNS", "elemNSWithText",
     "text", "updateText", "filter", "insert", "subscribeStore"}

ModuleOption == "@endorphinjs/endorphin"
PartialsOption == "partials"

Range(seq) == {seq[i] : i \in 1..Len(seq)}

\* Set.add / Map.set keep the order of first insertion
SetAdd(seq, x) == IF x \in Range(seq) THEN seq ELSE Append(seq, x)

\* use(symbol)
Use(symbol) ==
    /\ runtimeSymbols' = SetAdd(runtimeSymbols, symbol)
    /\ ret' = [op |-> "use", val |-> symbol]
    /\ UNCHANGED <<scopeVars, componentsMap, partialsMap, usedHelpers, usedStore, warned,
                   options, warnings, issued>>

\* useHelper(symbol)
UseHelper(symbol) ==
    /\ usedHelpers' = SetAdd(usedHelpers, symbol)
    /\ ret' = [op |-> "useHelper", val |-> symbol]
    /\ UNCHANGED <<scopeVars, componentsMap, partialsMap, runtimeSymbols, usedStore, warned,
                   options, warnings, issued>>

\* propAccessor(symbol), for a key that is an identifier
propAccessor(symbol) == "." \o symbol

\* useStore(symbol)
UseStore(symbol) ==
    /\ usedStore' = usedStore \cup {symbol}
    /\ ret' = [op |-> "useStore", val |-> Host \o ".store.data" \o propAccessor(symbol)]
    /\ UNCHANGED <<scopeVars, componentsMap, partialsMap, runtimeSymbols, usedHelpers, warned,
                   options, warnings, issued>>

\* push(node), called with the node exitFunction returned
Push ==
    /\ ret.op = "exitFunction"
    /\ body' = Append(body, ret.val)
    /\ ret' = [op |-> "push"]
    /\ UNCHANGED <<globalSymbols, scopeSymbols, func, namespacesMap, namespaceStack,
                   registryVars, issued>>

\* the symbol an import is bound to: the tag name as a JS identifier
ComponentSymbolName(name) ==
    IF name = "my-comp" THEN "MyComp" ELSE IF name = "x-list" THEN "XList" ELSE "Component"

\* componentsMap.set(name, {symbol, href, node}), done when an import is read
RegisterComponent(name, href, pos) ==
    LET symbol == globalText(ComponentSymbolName(name),
                             generateNum(globalSymbols, ComponentSymbolName(name)))
        item == [name |-> name, symbol |-> symbol, href |-> href, pos |-> pos, used |-> FALSE]
    IN
    /\ globalSymbols' = generateSymbols(globalSymbols, ComponentSymbolName(name))
    /\ issued' = IssueGlobal(ComponentSymbolName(name), symbol)
    /\ componentsMap' =
         IF isComponent(name)
         THEN [i \in 1..Len(componentsMap) |->
                 IF componentsMap[i].name = name THEN item ELSE componentsMap[i]]
         ELSE Append(componentsMap, item)
    /\ ret' = [op |-> "registerComponent", name |-> name, val |-> symbol]
    /\ UNCHANGED <<scopeSymbols, func, body, namespacesMap, namespaceStack, partialsMap,
                   runtimeSymbols, usedHelpers, usedStore, warned, options, warnings>>

\* partialsMap.set(key, {name, defaults}), done when a partial is declared
RegisterPartial(key, defaults) ==
    LET name == globalText("partial", generateNum(globalSymbols, "partial"))
        item == [key |-> key, name |-> name, defaults |-> defaults]
    IN
    /\ globalSymbols' = generateSymbols(globalSymbols, "partial")
    /\ issued' = IssueGlobal("partial", name)
    /\ partialsMap' =
         IF \E i \in 1..Len(partialsMap) : partialsMap[i].key = key
         THEN [i \in 1..Len(partialsMap) |->
                 IF partialsMap[i].key = key THEN item ELSE partialsMap[i]]
         ELSE Append(partialsMap, item)
    /\ ret' = [op |-> "registerPartial", name |-> key, val |-> name]
    /\ UNCHANGED <<scopeSymbols, func, body, namespacesMap, namespaceStack, componentsMap,
                   runtimeSymbols, usedHelpers, usedStore, warned, options, warnings>>

\* tagName.includes('-')
HasDash(tagName) == tagName \in {"my-comp", "x-missing", "x-list"}

\* this.warn(msg, pos): the callback is called when one is configured
warn(list, msg, pos) ==
    IF options.warn THEN Append(list, [msg |-> msg, pos |-> pos]) ELSE list

MissingMessage(tagName) ==
    "Missing component definition for <" \o tagName
        \o ">, did you forgot to <link rel=\"import\"> it?"

\* the import map after checkComponent, had it marked nothing
checkComponentMapUnmarked(map, tagName) == map

\* the import map after checkComponent: `data.used = true` for the import found
checkComponentMap(map, tagName) ==
    [i \in 1..Len(map) |->
        IF map[i].name = tagName THEN [map[i] EXCEPT !.used = TRUE] ELSE map[i]]

\* the test, had no warned name been remembered
warnedHasNever(set, tagName) == FALSE

\* `this._warned.has(tagName)`
warnedHas(set, tagName) == tagName \in set

\* checkComponent(node)
CheckComponent(tagName, pos) ==
    /\ componentsMap' = checkComponentMap(componentsMap, tagName)
    /\ IF ~isComponent(tagName) /\ HasDash(tagName) /\ ~warnedHas(warned, tagName)
       THEN /\ warned' = warned \cup {tagName}
            /\ warnings' = warn(warnings, MissingMessage(tagName), pos)
       ELSE UNCHANGED <<warned, warnings>>
    /\ ret' = [op |-> "checkComponent", name |-> tagName, pos |-> pos]
    /\ UNCHANGED <<scopeVars, partialsMap, runtimeSymbols, usedHelpers, usedStore, options,
                   issued>>

\* ------------------------------------------------------------------ compile
\* qStr(text): the text as a quoted string literal
qStr(text) == "\"" \o text \o "\""

\* array.join(sep), as fragments
RECURSIVE Join(_, _)
Join(seq, sep) ==
    IF Len(seq) = 0 THEN << >>
    ELSE IF Len(seq) = 1 THEN seq
    ELSE <<Head(seq), sep>> \o Join(Tail(seq), sep)

\* reverseObject(obj): helper name -> module URL; a later key wins
reverseObject(obj) ==
    LET names == UNION {Range(obj[i][2]) : i \in 1..Len(obj)}
        last(n) == CHOOSE i \in 1..Len(obj) :
                      /\ n \in Range(obj[i][2])
                      /\ \A j \in 1..Len(obj) : n \in Range(obj[j][2]) => j <= i
    IN [n \in names |-> obj[last(n)][1]]

\* the helper table, had the defaults been spread over the configured helpers
constructorHelpersDefaultsLast(defaults, opts) ==
    ObjectAssign(reverseObject(opts.helpers), reverseObject(defaults.helpers))

\* this.helpers: `{...reverseObject(defaultOptions.helpers || {}),
\* ...reverseObject(this.options.helpers)}`
constructorHelpers(defaults, opts) ==
    ObjectAssign(reverseObject(defaults.helpers), reverseObject(opts.helpers))

\* the helper table: helper name -> module URL (defaults, then the configured ones)
Helpers == constructorHelpers(defaultOptions, options)

HelperUrl(helper) == IF helper \in DOMAIN Helpers THEN Helpers[helper] ELSE "undefined"

\* getHelpersMap(): <<url, helpers>> pairs in order of first use
RECURSIVE getHelpersMap(_, _)
getHelpersMap(used, result) ==
    IF Len(used) = 0 THEN result
    ELSE LET url == HelperUrl(Head(used))
             at == {i \in 1..Len(result) : result[i][1] = url}
         IN getHelpersMap(Tail(used),
                IF at # {}
                THEN [i \in 1..Len(result) |->
                        IF i \in at THEN <<url, Append(result[i][2], Head(used))>>
                        ELSE result[i]]
                ELSE Append(result, <<url, <<Head(used)>>>>))

UnusedMessage(name, removeUnused) ==
    "Unused import \"" \o name \o "\"" \o (IF removeUnused THEN ", skipping" ELSE "")

RECURSIVE Flatten(_)
Flatten(seqs) == IF Len(seqs) = 0 THEN << >> ELSE Head(seqs) \o Flatten(Tail(seqs))

\* the runtime import, had it been added whatever the set holds
RuntimeImportAlways ==
    <<"import { ">> \o Join(runtimeSymbols, ", ") \o <<" } from \"" \o ModuleOption \o "\";\n">>

RuntimeImport ==
    IF Len(runtimeSymbols) > 0
    THEN <<"import { ">> \o Join(runtimeSymbols, ", ")
            \o <<" } from \"" \o ModuleOption \o "\";\n">>
    ELSE << >>

\* the component imports, had no import line ever been dropped
ComponentImportsAlways ==
    Flatten([i \in 1..Len(componentsMap) |->
        <<"import * as ", componentsMap[i].symbol, " from ",
          qStr(componentsMap[i].href), ";\n">>])

ComponentImports ==
    Flatten([i \in 1..Len(componentsMap) |->
        IF ~componentsMap[i].used /\ options.removeUnusedImports THEN << >>
        ELSE <<"import * as ", componentsMap[i].symbol, " from ",
               qStr(componentsMap[i].href), ";\n">>])

\* the unused-import warnings, had pruning silenced them
ComponentWarningsUnlessPruned ==
    IF options.removeUnusedImports THEN << >>
    ELSE Flatten([i \in 1..Len(componentsMap) |->
            IF ~componentsMap[i].used
            THEN <<[msg |-> UnusedMessage(componentsMap[i].name, FALSE),
                    pos |-> componentsMap[i].pos]>>
            ELSE << >>])

ComponentWarnings ==
    Flatten([i \in 1..Len(componentsMap) |->
        IF ~componentsMap[i].used
        THEN <<[msg |-> UnusedMessage(componentsMap[i].name, options.removeUnusedImports),
                pos |-> componentsMap[i].pos]>>
        ELSE << >>])

HelperImports ==
    LET map == getHelpersMap(usedHelpers, << >>) IN
    Flatten([i \in 1..Len(map) |->
        <<"import { ">> \o Join(map[i][2], ", ") \o <<" } from ", qStr(map[i][1]), ";\n">>])

CssScope ==
    IF options.cssScope # ""
    THEN <<"\nexport const cssScope = ", qStr(options.cssScope), ";\n">>
    ELSE << >>

PartialsRegistry ==
    IF Len(partialsMap) > 0
    THEN <<"\nexport const " \o PartialsOption \o " = {">>
         \o Flatten([i \in 1..Len(partialsMap) |->
               (IF i > 1 THEN <<",\n">> ELSE << >>)
               \o <<"\n" \o Indent, partialsMap[i].key, ": {\n",
                    Indent \o Indent \o "body: ", partialsMap[i].name, ",\n",
                    Indent \o Indent \o "defaults: ", partialsMap[i].defaults, "\n",
                    Indent \o "}">>])
         \o <<"\n};\n">>
    ELSE << >>

NamespaceConstants ==
    Flatten([i \in 1..Len(namespacesMap) |->
        <<"const ", namespacesMap[i][2], " = ", qStr(namespacesMap[i][1]), ";\n">>])

BodyChunks ==
    Flatten([i \in 1..Len(body) |-> <<"\n">> \o body[i] \o <<"\n">>])

\* the output, had the function bodies been added before the namespace constants
compileOutputBodiesFirst ==
    RuntimeImport \o ComponentImports \o HelperImports \o CssScope \o PartialsRegistry
        \o BodyChunks \o NamespaceConstants

\* the output of compile(): the sections in the order they are added
compileOutput ==
    RuntimeImport \o ComponentImports \o HelperImports \o CssScope \o PartialsRegistry
        \o NamespaceConstants \o BodyChunks

\* compile()
Compile ==
    /\ warnings' = IF options.warn THEN warnings \o ComponentWarnings ELSE warnings
    /\ ret' = [op |-> "compile", val |-> compileOutput]
    /\ UNCHANGED <<scopeVars, componentsMap, partialsMap, runtimeSymbols, usedHelpers,
                   usedStore, warned, options, issued>>

\* ------------------------------------------------------------ specifications
\* the bounds, as guards on the requests
MayRequest(req, name, cap) == Requests(req, name) <= cap
MayEnter == Len(func) < MaxDepth
MayPushUpdate == HasFunc /\ Len(Current.update) < MaxUpdate
RECURSIVE OpenElements(_)
OpenElements(stack) ==
    IF Len(stack) = 0 THEN 0 ELSE Len(Head(stack).element) + OpenElements(Tail(stack))
MayOpen == HasFunc /\ OpenElements(func) < MaxElements
DeepCap(name) == IF name = "ns" THEN MaxDeepNum ELSE MaxNum

\* global symbols under logical names that end in a digit or not
NextGlobal ==
    /\ UNCHANGED <<defaultOptions, instances, parser, ast>>
    /\ \/ \E name \in DigitNames :
            MayRequest(issued.reqGlobal, name, DeepCap(name)) /\ GlobalSymbol(name)
       \/ /\ MayRequest(issued.reqGlobal, "ns1", MaxNum)
          /\ Len(func) < 1
          /\ EnterFunction("ns1", "")
       \/ \E chunk \in UpdateChunks : HasFunc /\ Len(Current.update) < 1 /\ PushUpdate(chunk)
       \/ ExitFunction(<< >>)
       \/ \E uri \in {"http://www.w3.org/2000/svg"} :
            /\ MayRequest(issued.reqGlobal, "ns", MaxDeepNum)
            /\ Len(namespaceStack) < 1
            /\ EnterNamespace(uri)
       \/ Len(namespaceStack) > 0 /\ ExitNamespace

SpecGlobal == Init /\ [][NextGlobal]_vars

\* persistent-scope symbols requested from nested, sibling and exited functions
NextScope ==
    /\ UNCHANGED <<defaultOptions, instances, parser, ast>>
    /\ \/ \E name \in DigitNames :
            MayRequest(issued.reqScope, name, DeepCap(name)) /\ ScopeSymbol(name)
       \/ MayRequest(issued.reqGlobal, "block", MaxNum) /\ MayEnter /\ EnterFunction("block", "")
       \/ ExitFunction(<< >>)

SpecScope == Init /\ [][NextScope]_vars

\* every generator, under every kind of logical name
NextNames ==
    /\ UNCHANGED <<defaultOptions, instances, parser, ast>>
    /\ \/ \E name \in Names : MayRequest(issued.reqGlobal, name, MaxNum) /\ GlobalSymbol(name)
       \/ \E name \in Names : MayRequest(issued.reqScope, name, MaxNum) /\ ScopeSymbol(name)
       \/ \E name \in Names :
            /\ HasFunc
            /\ MayRequest(Current.localSymbols, name, MaxNum - 1)
            /\ LocalSymbol(name)
       \/ MayRequest(issued.reqGlobal, "block", MaxNum) /\ MayEnter /\ EnterFunction("block", "")
       \/ ExitFunction(<< >>)

SpecNames == Init /\ [][NextNames]_vars

\* the update phase of a function: memoized aliases
NextUpdate ==
    /\ UNCHANGED <<defaultOptions, instances, parser, ast>>
    /\ \/ /\ MayRequest(issued.reqGlobal, "block", MaxNum)
          /\ MayEnter
          /\ EnterFunction("block", "")
       \/ \E chunk \in UpdateChunks : MayPushUpdate /\ PushUpdate(chunk)
       \/ \E name \in PlainNames, value \in Values : MayPushUpdate /\ UpdateSymbol(name, value)
       \/ ExitFunction(<< >>)

SpecUpdate == Init /\ [][NextUpdate]_vars

\* the functions exitFunction emits
NextExit ==
    /\ UNCHANGED <<defaultOptions, instances, parser, ast>>
    /\ \/ \E injector \in Injectors :
            /\ MayRequest(issued.reqGlobal, "block", MaxNum)
            /\ MayEnter
            /\ EnterFunction("block", injector)
       \/ \E chunk \in UpdateChunks : MayPushUpdate /\ PushUpdate(chunk)
       \/ MayPushUpdate /\ UpdateSymbol("block", "host.props.items")
       \/ \E chunks \in Bodies : ExitFunction(chunks)
       \/ Len(body) < MaxBody /\ Push

SpecExit == Init /\ [][NextExit]_vars

\* the scope argument of nested and sibling functions
NextScopeArg ==
    /\ UNCHANGED <<defaultOptions, instances, parser, ast>>
    /\ \/ \E injector \in Injectors :
            /\ MayRequest(issued.reqGlobal, "block", MaxNum)
            /\ MayEnter
            /\ EnterFunction("block", injector)
       \/ MayRequest(issued.reqScope, "block", MaxNum) /\ ScopeSymbol("block")
       \/ HasFunc /\ ReadScope
       \/ ScopeInjector
       \/ MayOpen /\ EnterElement("div", [staticContent |-> FALSE, slotContent |-> FALSE])
       \/ ExitElement
       \/ \E chunk \in UpdateChunks : MayPushUpdate /\ PushUpdate(chunk)
       \/ ExitFunction(<< >>)

SpecScopeArg == Init /\ [][NextScopeArg]_vars

\* elements, components and the injector policy
NextInjector ==
    /\ UNCHANGED <<defaultOptions, instances, parser, ast>>
    /\ \/ \E injector \in Injectors :
            /\ MayRequest(issued.reqGlobal, "block", MaxNum)
            /\ MayEnter
            /\ EnterFunction("block", injector)
       \/ ExitFunction(<< >>)
       \/ \E name \in ElementNames, stats \in Stats : MayOpen /\ EnterElement(name, stats)
       \/ ExitElement
       \/ MayRequest(issued.reqGlobal, "MyComp", 0) /\ RegisterComponent("my-comp", "./my-comp.html", 7)
       \/ RequiresInjector
       \/ LocalInjector

SpecInjector == Init /\ [][NextInjector]_vars

\* namespaces and their constants
NextNamespace ==
    /\ UNCHANGED <<defaultOptions, instances, parser, ast>>
    /\ \/ \E uri \in Uris :
            /\ MayRequest(issued.reqGlobal, "ns", MaxNum + 1)
            /\ Len(namespaceStack) < MaxNamespaces
            /\ EnterNamespace(uri)
       \/ ExitNamespace
       \/ MayRequest(issued.reqGlobal, "ns", MaxNum + 1) /\ GlobalSymbol("ns")
       \/ Compile

SpecNamespace == Init /\ [][NextNamespace]_vars

\* component imports: registered, checked against tag names, compiled
NextComponents ==
    \/ \E opts \in ComponentOptions : New(opts) /\ UNCHANGED <<instances, parser, ast>>
    \/ /\ UNCHANGED <<defaultOptions, instances, parser, ast>>
       /\ \/ \E name \in ComponentNames, pos \in Offsets :
               /\ MayRequest(issued.reqGlobal, ComponentSymbolName(name), 0)
               /\ RegisterComponent(name, "./" \o name \o ".html", pos)
          \/ \E tagName \in TagNames, pos \in Offsets : CheckComponent(tagName, pos)
          \/ Use("insert")
          \/ Len(warnings) < MaxWarnings /\ Compile

SpecComponents == Init /\ [][NextComponents]_vars

\* a whole module: every registry filled, functions pushed, compiled
NextCompile ==
    \/ \E opts \in CompileOptions :
         ret.op = "new" /\ New(opts) /\ UNCHANGED <<instances, parser, ast>>
    \/ /\ UNCHANGED <<defaultOptions, instances, parser, ast>>
       /\ \/ /\ MayRequest(issued.reqGlobal, "MyComp", 0)
             /\ RegisterComponent("my-comp", "./my-comp.html", 7)
          \/ \E symbol \in UsedSymbols : Use(symbol)
          \/ \E helper \in UsedHelpers : UseHelper(helper)
          \/ MayRequest(issued.reqGlobal, "partial", 0)
               /\ RegisterPartial("button", "{ enabled: true }")
          \/ /\ MayRequest(issued.reqGlobal, "ns", 0)
             /\ Len(namespaceStack) < 1
             /\ EnterNamespace("http://www.w3.org/2000/svg")
          \/ /\ MayRequest(issued.reqGlobal, "block", 1)
             /\ Len(func) < 1
             /\ EnterFunction("block", "")
          \/ ExitFunction(<< >>)
          \/ Len(body) <= MaxBody /\ Push
          \/ Compile

SpecCompile == Init /\ [][NextCompile]_vars

\* ------------------------------------------------------------ several runs
\* the running instance, as one value
Snapshot ==
    [globalSymbols |-> globalSymbols, scopeSymbols |-> scopeSymbols, func |-> func,
     body |-> body, namespacesMap |-> namespacesMap, namespaceStack |-> namespaceStack,
     componentsMap |-> componentsMap, partialsMap |-> partialsMap,
     runtimeSymbols |-> runtimeSymbols, usedHelpers |-> usedHelpers,
     usedStore |-> usedStore, warned |-> warned, options |-> options,
     warnings |-> warnings, ret |-> ret, issued |-> issued]

\* the running instance after the step
SnapshotAfter ==
    [globalSymbols |-> globalSymbols', scopeSymbols |-> scopeSymbols', func |-> func',
     body |-> body', namespacesMap |-> namespacesMap',
     namespaceStack |-> namespaceStack', componentsMap |-> componentsMap',
     partialsMap |-> partialsMap', runtimeSymbols |-> runtimeSymbols',
     usedHelpers |-> usedHelpers', usedStore |-> usedStore', warned |-> warned',
     options |-> options', warnings |-> warnings', ret |-> ret', issued |-> issued']

\* the running instance becomes the one saved in state
Load(state) ==
    /\ globalSymbols' = state.globalSymbols
    /\ scopeSymbols' = state.scopeSymbols
    /\ func' = state.func
    /\ body' = state.body
    /\ namespacesMap' = state.namespacesMap
    /\ namespaceStack' = state.namespaceStack
    /\ componentsMap' = state.componentsMap
    /\ partialsMap' = state.partialsMap
    /\ runtimeSymbols' = state.runtimeSymbols
    /\ usedHelpers' = state.usedHelpers
    /\ usedStore' = state.usedStore
    /\ warned' = state.warned
    /\ options' = state.options
    /\ warnings' = state.warnings
    /\ ret' = state.ret
    /\ issued' = state.issued

\* the options the runs are constructed with
RunOptions == <<[warn |-> TRUE], [warn |-> TRUE, removeUnusedImports |-> TRUE],
                [cssScope |-> "e1x"]>>

NewCall(n) == [op |-> "new", name |-> "", n |-> n]
OpCall(op, name, n) == [op |-> op, name |-> name, n |-> n]

\* one call of the API on the running instance
Call(c) ==
    \/ c.op = "new" /\ New(RunOptions[c.n])
    \/ /\ UNCHANGED defaultOptions
       /\ \/ c.op = "globalSymbol" /\ GlobalSymbol(c.name)
          \/ c.op = "scopeSymbol" /\ ScopeSymbol(c.name)
          \/ c.op = "enterFunction" /\ EnterFunction(c.name, "injector")
          \/ c.op = "exitFunction" /\ ExitFunction(<< >>)
          \/ c.op = "push" /\ Push
          \/ c.op = "requiresInjector" /\ RequiresInjector
          \/ c.op = "scopeInjector" /\ ScopeInjector
          \/ c.op = "enterNamespace" /\ EnterNamespace(c.name)
          \/ c.op = "use" /\ Use(c.name)
          \/ c.op = "registerComponent"
               /\ RegisterComponent(c.name, "./" \o c.name \o ".html", c.n)
          \/ c.op = "checkComponent" /\ CheckComponent(c.name, c.n)
          \/ c.op = "compile" /\ Compile

\* a call on the running instance, logged with the state it leaves
Record(c) ==
    /\ instances.mode = "live"
    /\ Len(instances.log) < MaxCalls
    /\ (c.op = "new") = (Len(instances.log) = 0)
    /\ Call(c)
    /\ instances' = [instances EXCEPT
                       !.log = Append(@, [call |-> c, state |-> SnapshotAfter])]
    /\ UNCHANGED <<parser, ast>>

\* the next logged call, made again; Again(c) is the call the second run makes for c
Replay(Again(_)) ==
    /\ instances.at < Len(instances.log)
    /\ instances.mode = "live" => instances.at = 0
    /\ Call(Again(instances.log[instances.at + 1].call))
    /\ instances' = [instances EXCEPT !.mode = "replay", !.at = @ + 1]
    /\ UNCHANGED <<parser, ast>>

\* the logged state the second run is compared with
Logged == instances.log[instances.at].state
Replayed == instances.mode = "replay" /\ instances.at > 0

\* two runs of the same calls that differ in removeUnusedImports
SameButPruning(c) == IF c.op = "new" THEN NewCall(3 - c.n) ELSE c

PruningCalls ==
    {NewCall(1), NewCall(2), OpCall("registerComponent", "my-comp", 7),
     OpCall("registerComponent", "x-list", 21), OpCall("checkComponent", "my-comp", 21),
     OpCall("checkComponent", "x-missing", 21), OpCall("use", "insert", 0),
     OpCall("compile", "", 0)}

NextPruning ==
    \/ \E c \in PruningCalls : Record(c)
    \/ Replay(SameButPruning)

SpecPruning == Init /\ [][NextPruning]_vars

\* the same calls made on a second instance constructed with the same options
Same(c) == c

DeterminismCalls ==
    {NewCall(1), NewCall(3), OpCall("globalSymbol", "ns", 0), OpCall("scopeSymbol", "ns", 0),
     OpCall("enterFunction", "block", 0), OpCall("exitFunction", "", 0),
     OpCall("push", "", 0), OpCall("requiresInjector", "", 0),
     OpCall("scopeInjector", "", 0), OpCall("use", "insert", 0),
     OpCall("enterNamespace", "http://www.w3.org/2000/svg", 0),
     OpCall("registerComponent", "my-comp", 7), OpCall("checkComponent", "x-list", 21),
     OpCall("compile", "", 0)}

NextDeterminism ==
    \/ \E c \in DeterminismCalls : Record(c)
    \/ Replay(Same)

SpecDeterminism == Init /\ [][NextDeterminism]_vars

\* the running instance and its log, as it is set aside
Park == [state |-> Snapshot, log |-> instances.log]

\* the other instance runs next; the first switch makes room for a second instance,
\* which the next call constructs
Switch ==
    /\ instances.mode = "live"
    /\ Len(instances.log) > 0
    /\ IF Len(instances.parked) = 0
       THEN /\ instances' = [instances EXCEPT !.parked = <<Park>>, !.log = << >>]
            /\ UNCHANGED instanceVars
       ELSE /\ Load(instances.parked[1].state)
            /\ instances' = [instances EXCEPT !.parked = <<Park>>,
                                               !.log = instances.parked[1].log]
    /\ UNCHANGED <<defaultOptions, parser, ast>>

\* the module is loaded anew, to make the calls of the running instance alone
Reload ==
    /\ instances.mode = "live"
    /\ Len(instances.parked) > 0
    /\ Len(instances.log) > 0
    /\ instances' = [instances EXCEPT !.mode = "replay", !.at = 0]
    /\ defaultOptions' = DefaultOptions
    /\ UNCHANGED <<instanceVars, parser, ast>>

IsolationCalls ==
    {NewCall(1), NewCall(3), OpCall("globalSymbol", "ns", 0),
     OpCall("registerComponent", "my-comp", 7), OpCall("compile", "", 0)}

\* two instances whose calls interleave
NextIsolation ==
    \/ \E c \in IsolationCalls : Record(c)
    \/ Switch
    \/ Reload
    \/ instances.mode = "replay" /\ Replay(Same)

SpecIsolation == Init /\ [][NextIsolation]_vars

\* ------------------------------------------------------- expression tokenizer
\* the characters of the expressions tokenized
Alphabet == {"a", "3", "-", "#", "@", " "}

\* the characters of the expressions that hold the keyword `in`
WordAlphabet == {"i", "n", "#", "@", " "}

\* input.charCodeAt(pos); NaN past the end
CharAt(input, pos) == IF pos < Len(input) THEN input[pos + 1] ELSE "NaN"

\* input.slice(start, end)
RECURSIVE Slice(_, _, _)
Slice(input, start, end) ==
    IF start >= end \/ start >= Len(input) THEN ""
    ELSE input[start + 1] \o Slice(input, start + 1, end)

isIdentifierStart(ch) == ch \in {"a", "i", "n"}
isIdentifierChar(ch) == ch \in {"a", "i", "n", "3"}
IsDigit(ch) == ch \in {"3"}

\* skipSpace(): the position of the next character that is not white space
RECURSIVE skipSpace(_, _)
skipSpace(input, pos) ==
    IF CharAt(input, pos) = " " THEN skipSpace(input, pos + 1) ELSE pos

\* the loop of end_readWord, had it stopped at a dash as the standard readWord does
RECURSIVE end_readWordStandard(_, _)
end_readWordStandard(input, pos) ==
    IF isIdentifierChar(CharAt(input, pos + 1))
    THEN end_readWordStandard(input, pos + 1)
    ELSE pos + 1

\* the loop of end_readWord: this.pos after `do ch = charCodeAt(++pos) while (...)`
RECURSIVE end_readWord(_, _)
end_readWord(input, pos) ==
    IF isIdentifierChar(CharAt(input, pos + 1)) \/ CharAt(input, pos + 1) = "-"
    THEN end_readWord(input, pos + 1)
    ELSE pos + 1

\* the test of readToken, had it let a dash start a word
readsWordDashToo(code) == isIdentifierStart(code) \/ code \in {"#", "@", "-"}

\* the test of readToken: the characters that start an Endorphin identifier
readsWord(code) == isIdentifierStart(code) \/ code = "#" \/ code = "@"

\* readInt(10): the end of the run of digits
RECURSIVE readInt(_, _)
readInt(input, pos) == IF IsDigit(CharAt(input, pos)) THEN readInt(input, pos + 1) ELSE pos

Token(type, input, start, end) ==
    [type |-> type, value |-> Slice(input, start, end), start |-> start, end |-> end]

\* super.readToken(code): the standard tokenizer, for a number or a minus sign
superReadToken(input, pos) ==
    LET code == CharAt(input, pos) IN
    IF IsDigit(code)
    THEN (IF isIdentifierStart(CharAt(input, readInt(input, pos)))
          THEN [type |-> "error", value |-> "Identifier directly after number",
                start |-> pos, end |-> readInt(input, pos)]
          ELSE Token("num", input, pos, readInt(input, pos)))
    ELSE IF code = "-"
    THEN (IF CharAt(input, pos + 1) = "-" THEN Token("incDec", input, pos, pos + 2)
          ELSE Token("plusMin", input, pos, pos + 1))
    ELSE [type |-> "error", value |-> "Unexpected character", start |-> pos, end |-> pos]

\* the words the standard tokenizer gives a token type of their own
Keywords == {"in", "true", "null", "this", "typeof"}

\* the token type of a word, had it been classified as the standard readWord does
end_readWordTypeStandard(word) == IF word \in Keywords THEN "_" \o word ELSE "name"

\* the token type end_readWord finishes a word with: `tokTypes.name`
end_readWordType(word) == "name"

\* readToken(code) at this.pos
readToken(input, pos) ==
    IF readsWord(CharAt(input, pos))
    THEN Token(end_readWordType(Slice(input, pos, end_readWord(input, pos))),
               input, pos, end_readWord(input, pos))
    ELSE superReadToken(input, pos)

\* the parser is given an expression
ParseExpression(input) ==
    /\ parser.state # "reading"
    /\ parser' = [input |-> input, pos |-> 0, tokens |-> << >>, state |-> "reading"]
    /\ UNCHANGED <<instanceVars, defaultOptions, instances, ast>>

\* nextToken(): white space is skipped, then the token at this.pos is read
NextToken ==
    /\ parser.state = "reading"
    /\ LET start == skipSpace(parser.input, parser.pos) IN
       IF start >= Len(parser.input)
       THEN parser' = [parser EXCEPT
                         !.pos = start, !.state = "done",
                         !.tokens = Append(@, Token("eof", parser.input, start, start))]
       ELSE LET token == readToken(parser.input, start) IN
            parser' = [parser EXCEPT
                         !.pos = token.end,
                         !.state = IF token.type = "error" THEN "error" ELSE @,
                         !.tokens = Append(@, token)]
    /\ UNCHANGED <<instanceVars, defaultOptions, instances, ast>>

\* the expressions tokenized: every text of at most MaxInput characters
RECURSIVE Texts(_)
Texts(n) ==
    IF n = 0 THEN {<< >>}
    ELSE Texts(n - 1) \cup {Append(t, ch) : t \in {u \in Texts(n - 1) : Len(u) = n - 1},
                                             ch \in Alphabet}

NextTokenizer ==
    \/ \E input \in Texts(MaxInput) : parser.state = "idle" /\ ParseExpression(input)
    \/ NextToken

SpecTokenizer == Init /\ [][NextTokenizer]_vars

\* the expressions made of words: every text of at most MaxInput characters
RECURSIVE WordTexts(_)
WordTexts(n) ==
    IF n = 0 THEN {<< >>}
    ELSE WordTexts(n - 1)
           \cup {Append(t, ch) : t \in {u \in WordTexts(n - 1) : Len(u) = n - 1},
                                 ch \in WordAlphabet}

NextWords ==
    \/ \E input \in WordTexts(MaxInput) : parser.state = "idle" /\ ParseExpression(input)
    \/ NextToken

SpecWords == Init /\ [][NextWords]_vars

\* ------------------------------------------------------- statement codegen
VariableNames == {"foo"}
VariableValues == {"1", "2"}

\* the statement that seeds a local variable
SeedStatement(name, value) == ScopeOption \o "." \o name \o " = " \o value \o ";"

MountIteratorStatement(symbol) ==
    symbol \o " = mountIterator(" \o Host \o ", injector0, $$iteratorExpr0, $$iteratorBlock0);"
UpdateIteratorStatement(symbol) == "updateIterator(" \o symbol \o ");"

\* a variable statement is generated: the assignment goes to the function body and,
\* through pushUpdate, to the update list
VariableStatement(name, value) ==
    /\ HasFunc
    /\ LET marked == markScopeAsUsed(func)
           ctx == marked[Len(marked)]
           chunk == SeedStatement(name, value)
       IN func' = [marked EXCEPT ![Len(marked)] =
                     [ctx EXCEPT !.output = Append(@, chunk),
                                 !.update = pushUpdateList(@, chunk)]]
    /\ ret' = [op |-> "variableStatement", name |-> name, value |-> value]
    /\ UNCHANGED <<globalSymbols, scopeSymbols, body, namespacesMap, namespaceStack,
                   registryVars, issued>>

\* a loop is generated: the iterator is mounted in the function body and updated in
\* the update list
IteratorStatement ==
    /\ HasFunc
    /\ LET symbol == scopeText("iter", generateNum(scopeSymbols, "iter"))
           marked == markScopeAsUsed(func)
           ctx == marked[Len(marked)]
       IN /\ scopeSymbols' = generateSymbols(scopeSymbols, "iter")
          /\ issued' = IssueScope("iter", symbol)
          /\ func' = [marked EXCEPT ![Len(marked)] =
                        [ctx EXCEPT !.output = Append(@, MountIteratorStatement(symbol)),
                                    !.update = pushUpdateList(@, UpdateIteratorStatement(symbol))]]
          /\ ret' = [op |-> "iteratorStatement", val |-> symbol]
    /\ runtimeSymbols' = SetAdd(SetAdd(runtimeSymbols, "mountIterator"), "updateIterator")
    /\ UNCHANGED <<globalSymbols, body, namespacesMap, namespaceStack, componentsMap,
                   partialsMap, usedHelpers, usedStore, warned, options, warnings>>

\* a function with loop-local variables around a loop
NextLoop ==
    /\ UNCHANGED <<defaultOptions, instances, parser, ast>>
    /\ \/ /\ MayRequest(issued.reqGlobal, "iteratorBlock", 0)
          /\ Len(func) < 1
          /\ EnterFunction("iteratorBlock", "injector")
       \/ \E name \in VariableNames, value \in VariableValues :
            /\ HasFunc
            /\ Len(Current.output) < MaxStatements
            /\ VariableStatement(name, value)
       \/ /\ HasFunc
          /\ Len(Current.output) < MaxStatements
          /\ MayRequest(issued.reqScope, "iter", 0)
          /\ IteratorStatement
       \/ /\ HasFunc
          /\ ~HasProperty(Current.updateDeclarations, "host.props.items")
          /\ UpdateSymbol("items", "host.props.items")
       \/ HasFunc /\ ExitFunction(Current.output)

SpecLoop == Init /\ [][NextLoop]_vars

\* nested functions, each with its own symbols, update list and open elements
NextNesting ==
    /\ UNCHANGED <<defaultOptions, instances, parser, ast>>
    /\ \/ \E injector \in Injectors :
            /\ MayRequest(issued.reqGlobal, "block", MaxNum)
            /\ Len(func) < 2
            /\ EnterFunction("block", injector)
       \/ \E name \in {"block"} :
            /\ HasFunc
            /\ MayRequest(Current.localSymbols, name, 0)
            /\ LocalSymbol(name)
       \/ \E chunk \in UpdateChunks :
            HasFunc /\ Len(Current.update) < 2 /\ PushUpdate(chunk)
       \/ HasFunc /\ Len(Current.update) < 2 /\ UpdateSymbol("block", "host.props.items")
       \/ HasFunc /\ Len(Current.scopeArg) = 0 /\ ReadScope
       \/ /\ HasFunc
          /\ OpenElements(func) < 2
          /\ EnterElement("div", [staticContent |-> TRUE, slotContent |-> FALSE])
       \/ ExitElement
       \/ ExitFunction(<< >>)

SpecNesting == Init /\ [][NextNesting]_vars

\* ------------------------------------------------------------- syntax nodes
\* the node classes of the template syntax tree
NodeClasses ==
    {"ENDProgram", "ENDTemplate", "ENDElement", "ENDAttribute", "ENDVariable", "ENDEvent",
     "ENDIfStatement", "ENDChooseStatement", "ENDChooseCase", "ENDForEachStatement",
     "ENDPartialStatement", "ENDVariableStatement", "ENDAttributeStatement",
     "ENDAddClassStatement", "ENDText"}

\* the `type` field each class initializes
NodeType(class) ==
    CASE class = "ENDChooseCase" -> "ENDSwitchCase"
      [] class = "ENDPartialStatement" -> "ENDForEachStatement"
      [] OTHER -> class

\* new <class>(...)
NewNode(class) ==
    /\ ast' = Append(ast, [class |-> class, type |-> NodeType(class)])
    /\ UNCHANGED <<instanceVars, defaultOptions, instances, parser>>

\* new ParsedTag(name, type, ...): the type is a constructor argument
NewParsedTag(type) ==
    /\ ast' = Append(ast, [class |-> "ParsedTag", type |-> type])
    /\ UNCHANGED <<instanceVars, defaultOptions, instances, parser>>

NextNodes ==
    \/ \E class \in NodeClasses : Len(ast) < MaxNodes /\ NewNode(class)
    \/ \E type \in {"open", "close"} : Len(ast) < MaxNodes /\ NewParsedTag(type)

SpecNodes == Init /\ [][NextNodes]_vars

\* helpers of the default and of a configured module, used and compiled
NextHelpers ==
    \/ \E opts \in HelperOptions : New(opts) /\ UNCHANGED <<instances, parser, ast>>
    \/ /\ UNCHANGED <<defaultOptions, instances, parser, ast>>
       /\ \/ \E helper \in HelperNames : UseHelper(helper)
          \/ Compile

SpecHelpers == Init /\ [][NextHelpers]_vars

\* local and update names allocated in a function, in its parent and in its siblings
NextAllocators ==
    /\ UNCHANGED <<defaultOptions, instances, parser, ast>>
    /\ \/ /\ MayRequest(issued.reqGlobal, "block", MaxNum)
          /\ Len(func) < 2
          /\ EnterFunction("block", "")
       \/ \E name \in {"block", "constructor"} :
            /\ HasFunc
            /\ MayRequest(Current.localSymbols, name, 0)
            /\ LocalSymbol(name)
       \/ \E name \in {"block", "constructor"}, value \in Values :
            /\ HasFunc
            /\ Len(Current.update) < 2
            /\ UpdateSymbol(name, value)
       \/ ExitFunction(<< >>)

SpecAllocators == Init /\ [][NextAllocators]_vars

\* aliases declared and statements pushed in one update list, in any order
DeclaredValues == {"host.props.items", "host.state.x", "toString"}

NextDeclarations ==
    /\ UNCHANGED <<defaultOptions, instances, parser, ast>>
    /\ \/ /\ MayRequest(issued.reqGlobal, "block", MaxNum)
          /\ Len(func) < 1
          /\ EnterFunction("block", "")
       \/ \E chunk \in UpdateChunks :
            HasFunc /\ Len(Current.update) < MaxStatements /\ PushUpdate(chunk)
       \/ \E value \in DeclaredValues :
            HasFunc /\ Len(Current.update) < MaxStatements /\ UpdateSymbol("block", value)
       \/ ExitFunction(<< >>)

SpecDeclarations == Init /\ [][NextDeclarations]_vars

\* every operation
Next ==
    \/ NextGlobal \/ NextScope \/ NextNames \/ NextUpdate \/ NextExit \/ NextScopeArg
    \/ NextInjector \/ NextNamespace
    \/ NextComponents \/ NextCompile \/ NextPruning \/ NextDeterminism
    \/ NextIsolation \/ NextTokenizer \/ NextWords \/ NextDeclarations \/ NextAllocators \/ NextHelpers \/ NextNodes \/ NextNesting \/ NextLoop
    \/ /\ UNCHANGED <<defaultOptions, instances, parser, ast>>
       /\ \/ \E symbol \in RuntimeSymbols : Use(symbol)
          \/ \E helper \in DOMAIN Helpers : UseHelper(helper)
          \/ \E key \in {"foo"} : UseStore(key)

Spec == Init /\ [][Next]_vars

\* ------------------------------------------------------- reading generated text
\* the names of the functions a node declares, in order
RECURSIVE FunctionNames(_)
FunctionNames(out) ==
    IF Len(out) < 2 THEN << >>
    ELSE IF Head(out) = "function " THEN <<out[2]>> \o FunctionNames(Tail(out))
    ELSE FunctionNames(Tail(out))

\* the places where a node declares a function
FunctionStarts(out) == {i \in 1..Len(out) : out[i] = "function "}

\* the function declared at place i takes the scope parameter
HasScopeParam(out, i) == out[i + 4] = ", " \o ScopeOption

\* the node returns a reference to the update function of `symbol`, as the last statement
\* of the function before it
ReturnsUpdate(out, symbol) ==
    \E i \in 1..Len(out) :
        /\ out[i] = "return "
        /\ out[i + 1] = UpdateName(symbol)
        /\ out[i + 2] = ";\n}\n\n"

\* ---------------------------------------------------------------------- claims

\* C1: no two global symbols handed out by globalSymbol, enterFunction and
\* enterNamespace are the same text, and none is the text of a <symbol>Update name
\* emitted by exitFunction.
C1_GlobalSymbolsUnique ==
    /\ Cardinality(issued.global) = issued.nGlobal
    /\ issued.global \cap issued.update = {}

\* C2: no two persistent-scope symbols returned by scopeSymbol are the same text,
\* whatever function contexts the calls were made from.
C2_ScopeSymbolsUnique == Cardinality(issued.scope) = issued.nScope

\* C3: the k-th request for a logical name (k = 0, 1, 2, ...) returns the symbol
\* numbered k, for the global and the persistent-scope generator.
C3_KthRequestNumberedK ==
    /\ ret.op \in {"globalSymbol", "enterFunction"} =>
         ret.val = Prefix \o ret.name \o Suffix
                     \o NumberToString(Requests(issued.reqGlobal, ret.name) - 1)
    /\ ret.op = "scopeSymbol" =>
         ret.val = ScopeOption \o ".$_" \o ret.name
                     \o NumberToString(Requests(issued.reqScope, ret.name) - 1)

\* C4: within one function context every updateSymbol call with the same value text
\* returned the same alias, and the update list holds exactly one statement
\* `const <alias> = <value>;` for that value.
C4_MemoizedOnce ==
    \A i \in 1..Len(func) : \A value \in DOMAIN func[i].aliases :
        /\ Cardinality(func[i].aliases[value]) = 1
        /\ \A alias \in func[i].aliases[value] :
             Cardinality({k \in 1..Len(func[i].update) :
                            func[i].update[k] = Declaration(alias, value)}) = 1

\* C5: exitFunction emits a second function <symbol>Update, and ends the mount function
\* with `return <symbol>Update;`, exactly when the exited context recorded at least
\* one update statement; otherwise it emits one function with no such return.
C5_UpdateFunctionIffRecorded ==
    ret.op = "exitFunction" =>
        IF Len(ret.ctx.update) > 0
        THEN /\ FunctionNames(ret.val) = <<ret.ctx.symbol, UpdateName(ret.ctx.symbol)>>
             /\ ReturnsUpdate(ret.val, ret.ctx.symbol)
        ELSE /\ FunctionNames(ret.val) = <<ret.ctx.symbol>>
             /\ ~ReturnsUpdate(ret.val, ret.ctx.symbol)

C5_Witness ==
    /\ ret.op = "exitFunction"
    /\ Len(ret.ctx.update) > 0
    /\ Len(ret.chunks) > 0
    /\ Len(func) > 0

\* a function context is marked when its scope-argument placeholder is filled
Marked(ctx) == Len(ctx.scopeArg) > 0

\* both functions of a node take, or both do not take, the scope parameter
EmittedWithScope(out) == \A i \in FunctionStarts(out) : HasScopeParam(out, i)
EmittedWithoutScope(out) == \A i \in FunctionStarts(out) : ~HasScopeParam(out, i)

\* C6 (as stated): scopeSymbol marks every function context on the stack.
C6_MarksWholeChain ==
    ret.op = "scopeSymbol" => \A i \in 1..Len(func) : Marked(func[i])

\* C6 (amended): scopeSymbol marks the current function context, which is then emitted
\* with the scope parameter, and leaves the mark of every enclosing context as it was.
C6_MarksCurrentOnly ==
    /\ [][ret'.op = "scopeSymbol" /\ ret' # ret =>
            /\ Len(func') = Len(func)
            /\ HasFunc => Marked(func'[Len(func')])
            /\ \A i \in 1..(Len(func) - 1) : Marked(func'[i]) = Marked(func[i])]_vars
    /\ [](ret.op = "exitFunction" /\ Marked(ret.ctx) => EmittedWithScope(ret.val))

C6_Witness ==
    /\ ret.op = "scopeSymbol"
    /\ Len(func) = 2
    /\ Marked(func[2])
    /\ ~Marked(func[1])

\* C7: a function context that saw no scopeSymbol call, no read of `scope` and no
\* scopeInjector call with an open element while it was current is emitted without the
\* scope parameter, in its mount and in its update function; nothing done in a nested
\* or sibling function marks it.
C7_UnmarkedUnlessAsked ==
    /\ [][/\ \A i \in 1..Len(func) :
               i <= Len(func') /\ ~Marked(func[i]) /\ Marked(func'[i]) =>
                   /\ i = Len(func)
                   /\ Len(func') = Len(func)
                   /\ ret'.op \in {"scopeSymbol", "scope", "scopeInjector"}
                   /\ ret'.op = "scopeInjector" => ret'.element
          /\ Len(func') > Len(func) => ~Marked(func'[Len(func')])]_vars
    /\ [](ret.op = "exitFunction" /\ ~Marked(ret.ctx) => EmittedWithoutScope(ret.val))

C7_Witness ==
    /\ ret.op = "exitFunction"
    /\ ~Marked(ret.ctx)
    /\ Len(ret.ctx.update) > 0
    /\ Len(func) = 1
    /\ issued.nScope > 0
    /\ Cardinality(FunctionStarts(ret.val)) = 2

\* C9 (as stated): every scopeInjector call leaves the current function context marked.
C9_EveryCallMarks ==
    ret.op = "scopeInjector" => Marked(Current)

\* C9 (amended): a scopeInjector call made while an element is open in the current
\* function context leaves that context marked, and it stays marked until it is emitted,
\* with the scope parameter; a call with no open element returns the function's own
\* injector and marks nothing.
C9_CallWithElementMarks ==
    /\ [](ret.op = "scopeInjector" /\ ret.element => Marked(Current))
    /\ [][/\ ret'.op = "scopeInjector" /\ ret' # ret /\ ~ret'.element =>
               /\ func' = func
               /\ ret'.val = Current.injector
          /\ \A i \in 1..Len(func) : i <= Len(func') /\ Marked(func[i]) => Marked(func'[i])
          /\ ret'.op = "exitFunction" /\ Len(func') < Len(func) /\ Marked(Current) =>
               EmittedWithScope(ret'.val)]_vars

C9_Witness ==
    /\ ret.op = "scopeInjector"
    /\ ret.element
    /\ Marked(Current)
    /\ Len(func) = 2
    /\ ~Marked(func[1])

\* the innermost element open in the current function context, << >> if none
OpenElement == IF Len(Current.element) > 0 THEN <<Current.element[Len(Current.element)]>> ELSE << >>

\* the element is dynamic, slot content or a registered component
ElementNeedsInjector(element) ==
    \/ ~element.stats.staticContent
    \/ element.stats.slotContent
    \/ isComponent(element.name)

\* C8 (as stated): requiresInjector() is true exactly when the current element is not
\* fully static, is slot content or is a component; with no element open in the current
\* function context it is false.
C8_TrueOnlyForElement ==
    ret.op = "requiresInjector" =>
        ret.val = (Len(OpenElement) > 0 /\ ElementNeedsInjector(OpenElement[1]))

\* C8 (amended): with an element open in the current function context
\* requiresInjector() is true exactly when that element is not fully static, is slot
\* content or is a registered component; with no element open there it is true exactly
\* when the current function has an injector handle.
C8_ElementOrFunctionInjector ==
    ret.op = "requiresInjector" =>
        ret.val = IF Len(OpenElement) > 0
                  THEN ElementNeedsInjector(OpenElement[1])
                  ELSE Current.injector # ""

C8_Witness ==
    /\ ret.op = "requiresInjector"
    /\ Len(OpenElement) = 0
    /\ Current.injector # ""
    /\ ret.val
    /\ Len(func) = 2
    /\ Len(func[1].element) > 0
    /\ ~ElementNeedsInjector(func[1].element[1])

\* the constants compile() declares: <<constant, quoted URI>> per declaration, in order
RECURSIVE ConstantDeclarations(_)
ConstantDeclarations(out) ==
    IF Len(out) < 4 THEN << >>
    ELSE IF Head(out) = "const " THEN <<<<out[2], out[4]>>>> \o ConstantDeclarations(Tail(out))
    ELSE ConstantDeclarations(Tail(out))

\* C10: each namespace URI is bound to one constant, allocated at its first entry and
\* returned on every later entry; two URIs never share a constant; compile() declares
\* exactly one constant per registered URI.
C10_OneConstantPerUri ==
    /\ ret.op = "enterNamespace" =>
         /\ ret.val = issued.ns[ret.uri]
         /\ namespace = <<issued.ns[ret.uri]>>
    /\ \A u1, u2 \in DOMAIN issued.ns : u1 # u2 => issued.ns[u1] # issued.ns[u2]
    /\ ret.op = "compile" =>
         /\ Len(ConstantDeclarations(ret.val)) = Cardinality(DOMAIN issued.ns)
         /\ \A uri \in DOMAIN issued.ns :
              \E i \in 1..Len(ConstantDeclarations(ret.val)) :
                  ConstantDeclarations(ret.val)[i] = <<issued.ns[uri], qStr(uri)>>

C10_Witness ==
    /\ ret.op = "compile"
    /\ Len(namespacesMap) = 2
    /\ Len(namespaceStack) = 2
    /\ namespaceStack[1] = namespaceStack[2]
    /\ namespaceStack[1] = namespacesMap[2][2]
    /\ issued.nGlobal > 2
\* ---------------------------------------------------------------- components
\* the import registered under a tag name, if any
ImportOf(map, tagName) == {i \in 1..Len(map) : map[i].name = tagName}

\* C11 (as stated): a checkComponent call on a registered tag name sets that import's
\* used flag and delivers no warning; on an unregistered tag name with a dash it
\* delivers a missing-component warning with the node's start offset and changes no
\* used flag; on an unregistered tag name without a dash it changes nothing
C11_WarnsOnEveryMissing ==
    [][(ret'.op = "checkComponent" /\ options.warn) =>
         LET tagName == ret'.name IN
         IF ImportOf(componentsMap, tagName) # {}
         THEN /\ \A i \in 1..Len(componentsMap) :
                   componentsMap'[i] =
                     IF componentsMap[i].name = tagName
                     THEN [componentsMap[i] EXCEPT !.used = TRUE] ELSE componentsMap[i]
              /\ warnings' = warnings
         ELSE /\ componentsMap' = componentsMap
              /\ warnings' = IF HasDash(tagName)
                              THEN Append(warnings, [msg |-> MissingMessage(tagName),
                                                     pos |-> ret'.pos])
                              ELSE warnings]_vars

\* C11 (amended): as above, but the missing-component warning is delivered only by the
\* first check of an unregistered dashed tag name; later checks of that name deliver
\* nothing
C11_WarnsOnFirstMissing ==
    [][(ret'.op = "checkComponent" /\ options.warn) =>
         LET tagName == ret'.name IN
         IF ImportOf(componentsMap, tagName) # {}
         THEN /\ \A i \in 1..Len(componentsMap) :
                   componentsMap'[i] =
                     IF componentsMap[i].name = tagName
                     THEN [componentsMap[i] EXCEPT !.used = TRUE] ELSE componentsMap[i]
              /\ warnings' = warnings
         ELSE /\ componentsMap' = componentsMap
              /\ warnings' =
                   IF HasDash(tagName)
                      /\ \A i \in 1..Len(warnings) : warnings[i].msg # MissingMessage(tagName)
                   THEN Append(warnings, [msg |-> MissingMessage(tagName), pos |-> ret'.pos])
                   ELSE warnings]_vars

\* a registered import was marked used, and a missing component was reported once and
\* then checked again
C11_Witness ==
    /\ ret.op = "checkComponent"
    /\ ret.name = "x-missing"
    /\ ret.pos = 21
    /\ \E i \in 1..Len(componentsMap) : componentsMap[i].used
    /\ \E i \in 1..Len(warnings) :
         warnings[i] = [msg |-> MissingMessage("x-missing"), pos |-> 7]
    /\ \A i \in 1..Len(warnings) : warnings[i].pos # 21
\* the symbols of the component import lines of a module, in order
RECURSIVE ComponentImportSymbols(_)
ComponentImportSymbols(out) ==
    IF Len(out) < 2 THEN << >>
    ELSE IF Head(out) = "import * as " THEN <<out[2]>> \o ComponentImportSymbols(Tail(out))
    ELSE ComponentImportSymbols(Tail(out))

\* a module without its component import lines
RECURSIVE StripComponentImports(_)
StripComponentImports(out) ==
    IF Len(out) = 0 THEN << >>
    ELSE IF Head(out) = "import * as " THEN StripComponentImports(SubSeq(out, 6, Len(out)))
    ELSE <<Head(out)>> \o StripComponentImports(Tail(out))

\* the elements of a sequence that satisfy a test, in order
SelectSeqBy(seq, Keep(_)) ==
    LET F[i \in 0..Len(seq)] ==
          IF i = 0 THEN << >> ELSE IF Keep(seq[i]) THEN Append(F[i - 1], seq[i]) ELSE F[i - 1]
    IN F[Len(seq)]

\* C12: a compile() call delivers one unused-import warning for each registered import
\* never marked used and none for a used one, returns the complete module, and leaves
\* out the import line of an unused import exactly when removeUnusedImports is set
C12_UnusedImportsWarned ==
    [][ret'.op = "compile" =>
         LET Unused(item) == ~item.used
             Kept(item) == item.used \/ ~options.removeUnusedImports
             unused == SelectSeqBy(componentsMap, Unused)
             kept == SelectSeqBy(componentsMap, Kept)
         IN
         /\ options.warn =>
              /\ Len(warnings') = Len(warnings) + Len(unused)
              /\ \A i \in 1..Len(unused) :
                   warnings'[Len(warnings) + i] =
                     [msg |-> UnusedMessage(unused[i].name, options.removeUnusedImports),
                      pos |-> unused[i].pos]
              /\ SubSeq(warnings', 1, Len(warnings)) = warnings
         /\ ComponentImportSymbols(ret'.val) = [i \in 1..Len(kept) |-> kept[i].symbol]
         /\ StripComponentImports(ret'.val)
              = RuntimeImport \o HelperImports \o CssScope \o PartialsRegistry
                  \o NamespaceConstants \o BodyChunks]_vars

\* a module was compiled with one import used and one not, the unused one dropped
C12_Witness ==
    /\ ret.op = "compile"
    /\ options.removeUnusedImports
    /\ Len(componentsMap) = 2
    /\ \E i, j \in 1..2 : componentsMap[i].used /\ ~componentsMap[j].used
    /\ Len(ComponentImportSymbols(ret.val)) = 1
    /\ Len(warnings) = 1
    /\ Len(runtimeSymbols) > 0
\* --------------------------------------------------------------- two runs
\* a module without the import lines of the given symbols
RECURSIVE WithoutImportsOf(_, _)
WithoutImportsOf(out, symbols) ==
    IF Len(out) = 0 THEN << >>
    ELSE IF Len(out) >= 5 /\ Head(out) = "import * as " /\ out[2] \in symbols
         THEN WithoutImportsOf(SubSeq(out, 6, Len(out)), symbols)
    ELSE <<Head(out)>> \o WithoutImportsOf(Tail(out), symbols)

\* the symbols of the imports never marked used
UnusedSymbols == {componentsMap[i].symbol : i \in {j \in 1..Len(componentsMap) :
                                                    ~componentsMap[j].used}}

\* the two runs return the same at this step, but for the unused import lines of a module
SameButUnusedImports ==
    /\ ret.op = Logged.ret.op
    /\ componentsMap = Logged.componentsMap
    /\ IF ret.op = "compile"
       THEN /\ WithoutImportsOf(ret.val, UnusedSymbols)
                 = WithoutImportsOf(Logged.ret.val, UnusedSymbols)
            /\ LET pruned == IF options.removeUnusedImports THEN ret.val ELSE Logged.ret.val
                   kept == IF options.removeUnusedImports THEN Logged.ret.val ELSE ret.val
               IN /\ pruned = WithoutImportsOf(kept, UnusedSymbols)
                  /\ \A symbol \in UnusedSymbols :
                       \E i \in 1..Len(kept) - 1 :
                          kept[i] = "import * as " /\ kept[i + 1] = symbol
       ELSE ret = Logged.ret

\* C13 (as stated): two runs of the same calls that differ only in removeUnusedImports
\* differ only by the unused component import lines of the output; every other section
\* and every delivered warning is the same
C13_SameWarnings ==
    Replayed => SameButUnusedImports /\ warnings = Logged.warnings

\* C13 (amended): the two runs differ only by the unused component import lines and by
\* the text of the unused-import warnings, which ends in ", skipping" in the run with
\* the option set; the warnings are as many, in the same order, at the same offsets
C13_SameWarningsButText ==
    Replayed =>
      /\ SameButUnusedImports
      /\ Len(warnings) = Len(Logged.warnings)
      /\ \A i \in 1..Len(warnings) :
           /\ warnings[i].pos = Logged.warnings[i].pos
           /\ \/ warnings[i].msg = Logged.warnings[i].msg
              \/ \E j \in 1..Len(componentsMap) :
                    /\ warnings[i].msg
                         = UnusedMessage(componentsMap[j].name, options.removeUnusedImports)
                    /\ Logged.warnings[i].msg
                         = UnusedMessage(componentsMap[j].name, Logged.options.removeUnusedImports)

\* both runs compiled a module with an unused import, a missing component and a runtime
\* symbol
C13_Witness ==
    /\ Replayed
    /\ ret.op = "compile"
    /\ UnusedSymbols # {}
    /\ Len(warnings) = 1
    /\ options.removeUnusedImports # Logged.options.removeUnusedImports
    /\ ret.val # Logged.ret.val
\* ------------------------------------------------------------ module layout
RuntimeImportEnd == " } from \"" \o ModuleOption \o "\";\n"

\* the fragment that closes the `import { ... }` opened at i
ImportEnd(out, i) ==
    LET ends == {j \in i + 1..Len(out) : out[j] \in {RuntimeImportEnd, " } from "}}
    IN out[CHOOSE j \in ends : \A k \in ends : j <= k]

\* the section that starts at fragment i of a module: 1 runtime import, 2 component
\* import, 3 helper import, 4 style scope, 5 partials, 6 namespace constant, 7 function
\* body; 0 where no section starts
SectionAt(out, i) ==
    IF out[i] = "import { "
    THEN (IF ImportEnd(out, i) = RuntimeImportEnd THEN 1 ELSE 3)
    ELSE IF out[i] = "import * as " THEN 2
    ELSE IF out[i] = "\nexport const cssScope = " THEN 4
    ELSE IF out[i] = "\nexport const " \o PartialsOption \o " = {" THEN 5
    ELSE IF out[i] = "const " THEN 6
    ELSE IF out[i] = "function " THEN 7
    ELSE 0

SectionCount(out, kind) == Cardinality({i \in 1..Len(out) : SectionAt(out, i) = kind})

\* C14: the module compile() returns holds its sections in the order runtime import,
\* component imports, helper imports, style scope, partials, namespace constants,
\* function bodies, and the function bodies in the order they were pushed, each once
C14_SectionsInOrder ==
    ret.op = "compile" =>
      LET out == ret.val IN
      /\ \A i, j \in 1..Len(out) :
           (i < j /\ SectionAt(out, i) > 0 /\ SectionAt(out, j) > 0)
             => SectionAt(out, i) <= SectionAt(out, j)
      /\ SectionCount(out, 1) = (IF Len(runtimeSymbols) > 0 THEN 1 ELSE 0)
      /\ SectionCount(out, 2) = Len(componentsMap)
      /\ SectionCount(out, 3) = (IF Len(usedHelpers) > 0 THEN 1 ELSE 0)
      /\ SectionCount(out, 4) = (IF options.cssScope # "" THEN 1 ELSE 0)
      /\ SectionCount(out, 5) = (IF Len(partialsMap) > 0 THEN 1 ELSE 0)
      /\ SectionCount(out, 6) = Len(namespacesMap)
      /\ FunctionNames(out) = Flatten([i \in 1..Len(body) |-> FunctionNames(body[i])])
      /\ \A i, j \in 1..Len(FunctionNames(out)) :
           FunctionNames(out)[i] = FunctionNames(out)[j] => i = j

\* a module with every section and two function bodies was compiled
C14_Witness ==
    /\ ret.op = "compile"
    /\ \A kind \in 1..6 : SectionCount(ret.val, kind) = 1
    /\ Len(body) = 2
    /\ FunctionNames(ret.val) = <<"$$block0", "$$block1">>
\* the places of the runtime import lines of a module
RuntimeImportStarts(out) == {i \in 1..Len(out) : SectionAt(out, i) = 1}

\* the symbols a runtime import line lists, in order
RECURSIVE ListedFrom(_, _)
ListedFrom(out, i) ==
    IF i > Len(out) \/ out[i] = RuntimeImportEnd THEN << >>
    ELSE IF out[i] = ", " THEN ListedFrom(out, i + 1)
    ELSE <<out[i]>> \o ListedFrom(out, i + 1)

\* C15: the module holds a runtime import line exactly when use() was called, and the
\* line lists exactly the symbols passed to use(), each once however often it was used
C15_ImportsWhatWasUsed ==
    /\ [](ret.op = "compile" =>
            LET starts == RuntimeImportStarts(ret.val) IN
            /\ (starts # {}) = (Len(runtimeSymbols) > 0)
            /\ Cardinality(starts) <= 1
            /\ \A i \in starts :
                 LET listed == ListedFrom(ret.val, i + 1) IN
                 /\ Range(listed) = Range(runtimeSymbols)
                 /\ Len(listed) = Cardinality(Range(runtimeSymbols)))
    /\ [][IF ret'.op = "use"
          THEN Range(runtimeSymbols') = Range(runtimeSymbols) \cup {ret'.val}
          ELSE IF ret'.op = "new" THEN runtimeSymbols' = << >>
          ELSE runtimeSymbols' = runtimeSymbols]_vars

\* a module was compiled after one symbol was used twice and another once
C15_Witness ==
    /\ ret.op = "compile"
    /\ runtimeSymbols = <<"insert", "elem">>
    /\ \E i \in RuntimeImportStarts(ret.val) :
         ListedFrom(ret.val, i + 1) = <<"insert", "elem">>
\* C16: a second fresh instance constructed with the same options and driven by the
\* same calls returns the same value at every step, delivers the same warnings and
\* compiles to the same text
C16_SameCallsSameResults ==
    Replayed => /\ ret = Logged.ret
                /\ warnings = Logged.warnings

\* the second run allocated symbols and compiled a module, as the first had
C16_Witness ==
    /\ Replayed
    /\ instances.at = Len(instances.log)
    /\ ret.op = "compile"
    /\ Len(ret.val) > 0
    /\ issued.nGlobal > 0
    /\ instances.log[1].state.issued.nGlobal = 0
\* C17: the calls of an instance, made while the calls of another instance interleave
\* with them, leave it in the state they leave it in when made alone (returned values,
\* counters, registries, stacks, warnings, compile output), and no call changes the
\* shared defaultOptions record
C17_InterleavedAsAlone ==
    /\ defaultOptions = DefaultOptions
    /\ Replayed => Snapshot = Logged

\* an instance that ran interleaved with one of other options compiled the same module
\* alone
C17_Witness ==
    /\ Replayed
    /\ instances.at = Len(instances.log)
    /\ ret.op = "compile"
    /\ issued.nGlobal > 0
    /\ Len(instances.parked) = 1
    /\ instances.parked[1].state.options # options
    /\ instances.parked[1].state.issued.nGlobal > 0
    /\ instances.parked[1].state.ret.op = "compile"
\* ---------------------------------------------------------------- tokens
\* the end of the longest run of identifier characters and dashes after position start
RunEnd(input, start) ==
    CHOOSE end \in start + 1..Len(input) :
       /\ \A p \in start + 1..end - 1 :
            isIdentifierChar(CharAt(input, p)) \/ CharAt(input, p) = "-"
       /\ ~(isIdentifierChar(CharAt(input, end)) \/ CharAt(input, end) = "-")

TokensRead == {parser.tokens[k] : k \in 1..Len(parser.tokens)}

\* C18: at a position whose character is an identifier-start character, `#` or `@`,
\* the tokenizer produces one name token: that character and the longest run of
\* identifier characters and dashes after it; no other token starts inside it
C18_WordWithDashes ==
    \A t \in TokensRead :
       LET first == CharAt(parser.input, t.start) IN
       (isIdentifierStart(first) \/ first \in {"#", "@"}) =>
          /\ t.type = "name"
          /\ t.end = RunEnd(parser.input, t.start)
          /\ t.value = Slice(parser.input, t.start, RunEnd(parser.input, t.start))
          /\ \A u \in TokensRead : ~(t.start < u.start /\ u.start < t.end)
          /\ \A u \in TokensRead : u.start = t.start => u = t

\* `#a-a` was read as one name token
C18_Witness ==
    /\ parser.state = "done"
    /\ parser.input = <<"#", "a", "-", "a">>
    /\ Len(parser.tokens) = 2
    /\ parser.tokens[1] = [type |-> "name", value |-> "#a-a", start |-> 0, end |-> 4]

\* C19: a dash at the start of the expression or after white space is read by the
\* standard tokenizer as a minus operator, and no name token starts with a dash
C19_LeadingDashIsMinus ==
    /\ \A t \in TokensRead :
         CharAt(parser.input, t.start) = "-" => t.type \in {"plusMin", "incDec"}
    /\ \A p \in 0..Len(parser.input) - 1 :
         (/\ CharAt(parser.input, p) = "-"
          /\ (p = 0 \/ CharAt(parser.input, p - 1) = " ")
          /\ parser.pos > p)
           => \E t \in TokensRead : t.start = p /\ t.type \in {"plusMin", "incDec"}

\* `a -a` was read as a name, a minus and a name
C19_Witness ==
    /\ parser.state = "done"
    /\ parser.input = <<"a", " ", "-", "a">>
    /\ Len(parser.tokens) = 4
    /\ parser.tokens[1].value = "a"
    /\ parser.tokens[2] = [type |-> "plusMin", value |-> "-", start |-> 2, end |-> 3]
    /\ parser.tokens[3] = [type |-> "name", value |-> "a", start |-> 3, end |-> 4]

\* C20: no name token begins with a sigil that directly follows the characters of an
\* identifier
C20_NoSigilAfterIdentifier ==
    \A t \in TokensRead :
       (t.type = "name" /\ CharAt(parser.input, t.start) \in {"#", "@"})
         => ~\E u \in TokensRead :
               /\ u.type = "name"
               /\ u.end = t.start
               /\ isIdentifierChar(CharAt(parser.input, t.start - 1))
\* ------------------------------------------------------------ loop variables
\* the place where the update function of a generated node starts
UpdateStart(out) ==
    LET starts == {i \in 2..Len(out) : out[i] = "function "}
    IN IF starts = {} THEN Len(out) + 1 ELSE CHOOSE i \in starts : \A j \in starts : i <= j

IsSeed(chunk) ==
    \E name \in VariableNames, value \in VariableValues : chunk = SeedStatement(name, value)
IsIterator(chunk) ==
    \E num \in 0..MaxNum :
       chunk \in {MountIteratorStatement(scopeText("iter", num)),
                  UpdateIteratorStatement(scopeText("iter", num))}

\* the seeding assignments of a function text, in order, with the place of the
\* iterator call among them
RECURSIVE Seeding(_)
Seeding(out) ==
    IF Len(out) = 0 THEN << >>
    ELSE IF IsSeed(Head(out)) THEN <<Head(out)>> \o Seeding(Tail(out))
    ELSE IF IsIterator(Head(out)) THEN <<"iterator">> \o Seeding(Tail(out))
    ELSE Seeding(Tail(out))

\* C21: the seeding assignments of a mount function are the same texts in the paired
\* update function, in the same order relative to the iterator mount and update calls
C21_SeedingSameInUpdate ==
    (ret.op = "exitFunction" /\ Len(ret.ctx.update) > 0) =>
      LET out == ret.val
          at == UpdateStart(out)
      IN Seeding(SubSeq(out, 1, at - 1)) = Seeding(SubSeq(out, at, Len(out)))

\* a function was generated with a variable seeded before and after a loop, and an
\* update alias declared in between
C21_Witness ==
    /\ ret.op = "exitFunction"
    /\ Seeding(ret.val) = <<SeedStatement("foo", "1"), "iterator", SeedStatement("foo", "2"),
                             SeedStatement("foo", "1"), "iterator", SeedStatement("foo", "2")>>
    /\ Len(ret.ctx.update) = 4
\* ---------------------------------------------------------- nested functions
\* what a function context keeps for itself
ParentFields(ctx) ==
    <<ctx.update, ctx.updateDeclarations, ctx.localSymbols, ctx.updateSymbols,
      ctx.injector, ctx.element>>

\* C22: enterFunction pushes one context and exitFunction pops one, so the context
\* that was current at an enterFunction is current again after the matching
\* exitFunction; no step changes the update list, memo map, local and update counters,
\* injector or open elements of a context that encloses the current one
C22_FunctionStackDiscipline ==
    [][/\ Len(func') > Len(func) =>
            (Len(func') = Len(func) + 1 /\ ret'.op = "enterFunction")
       /\ Len(func') < Len(func) =>
            (Len(func') = Len(func) - 1 /\ ret'.op = "exitFunction")
       /\ \A i \in 1..Len(func) :
            (i <= Len(func') /\ (i < Len(func) \/ i < Len(func'))) =>
               ParentFields(func'[i]) = ParentFields(func[i])]_vars

\* a nested function that pushed updates, declared an alias, took a local symbol and
\* opened an element was exited, and the enclosing function has its own of each
C22_Witness ==
    /\ ret.op = "exitFunction"
    /\ Len(func) = 1
    /\ Len(ret.ctx.update) = 2
    /\ Len(ret.ctx.element) = 1
    /\ "block" \in DOMAIN ret.ctx.localSymbols
    /\ Len(Current.update) = 1
    /\ Len(Current.element) = 1
    /\ "block" \in DOMAIN Current.localSymbols
    /\ Current.injector = "injector"
    /\ ret.ctx.injector = ""
\* ------------------------------------------------------------ open elements
\* C23: exitElement finalizes the element most recently opened and not yet closed in
\* the current function context, never an element opened in an enclosing function
C23_ExitElementOwn ==
    ret.op = "exitElement" => ret.own
\* ------------------------------------------------------------- syntax nodes
\* C24: two nodes that carry the same `type` string are of the same class
C24_TypeTagsDistinct ==
    \A i, j \in 1..Len(ast) : ast[i].type = ast[j].type => ast[i].class = ast[j].class
\* ------------------------------------------------------------ helper imports
\* the places where the helper import lines of a module start
HelperImportStarts(out) ==
    {i \in 1..Len(out) : out[i] = "import { " /\ ImportEnd(out, i) = " } from "}

\* the fragment that closes the helper import line opened at i
HelperImportEnd(out, i) ==
    CHOOSE j \in i + 1..Len(out) :
       out[j] = " } from " /\ \A k \in i + 1..Len(out) : out[k] = " } from " => j <= k

\* the places of the names a helper import line lists
HelperPlaces(out, i) == {k \in i + 1..HelperImportEnd(out, i) - 1 : out[k] # ", "}

\* the module URL a helper is declared in: a configured module, else a default one
DeclaringModules(helper) ==
    LET in(obj) == {obj[i][1] : i \in {j \in 1..Len(obj) : helper \in Range(obj[j][2])}}
    IN IF in(options.helpers) # {} THEN in(options.helpers) ELSE in(DefaultHelpers)

\* C25: in a compiled module every helper passed to useHelper is listed in exactly one
\* helper import line, a declared helper in the line of the module that declares it
\* (the configured module if one is configured, else the default one); the lines list
\* nothing else and no two lines import from the same module
C25_HelperImportedOnce ==
    ret.op = "compile" =>
      LET out == ret.val
          starts == HelperImportStarts(out)
      IN /\ \A helper \in Range(usedHelpers) :
              /\ Cardinality({p \in starts \X (1..Len(out)) :
                     p[2] \in HelperPlaces(out, p[1]) /\ out[p[2]] = helper}) = 1
              /\ \A i \in starts :
                   (helper \in {out[k] : k \in HelperPlaces(out, i)}
                      /\ DeclaringModules(helper) # {})
                    => \E url \in DeclaringModules(helper) :
                          out[HelperImportEnd(out, i) + 1] = qStr(url)
         /\ \A i \in starts :
              {out[k] : k \in HelperPlaces(out, i)} \subseteq Range(usedHelpers)
         /\ \A i, j \in starts :
              out[HelperImportEnd(out, i) + 1] = out[HelperImportEnd(out, j) + 1] => i = j

\* a module was compiled with a configured helper module that redeclares a default
\* helper, after helpers of both modules were used
C25_Witness ==
    /\ ret.op = "compile"
    /\ usedHelpers = <<"emit", "setState", "format">>
    /\ options.helpers # DefaultHelpers
    /\ Cardinality(HelperImportStarts(ret.val)) = 2
\* ---------------------------------------------------------- open namespaces
\* the constant the namespace map holds for a URI
ConstantOf(map, uri) == map[CHOOSE i \in NamespaceIndex(map, uri) : TRUE][2]

\* C26: enterNamespace makes the constant of its URI the active namespace on top of
\* the ones open before, exitNamespace makes active again what was active before the
\* matching enterNamespace, and with none open the active namespace is null and
\* exitNamespace changes nothing; no other operation changes the open namespaces
C26_ActiveNamespace ==
    [][/\ ret'.op = "enterNamespace" =>
            /\ namespaceStack' = Append(namespaceStack, ConstantOf(namespacesMap', ret'.uri))
            /\ namespace' = <<ConstantOf(namespacesMap', ret'.uri)>>
       /\ ret'.op = "exitNamespace" =>
            IF Len(namespaceStack) = 0
            THEN /\ namespace' = << >>
                 /\ UNCHANGED <<namespaceStack, namespacesMap, globalSymbols>>
            ELSE /\ namespaceStack' = SubSeq(namespaceStack, 1, Len(namespaceStack) - 1)
                 /\ namespace' = (IF Len(namespaceStack) = 1 THEN << >>
                                  ELSE <<namespaceStack[Len(namespaceStack) - 1]>>)
                 /\ UNCHANGED namespacesMap
       /\ ret'.op \notin {"enterNamespace", "exitNamespace"} =>
            namespaceStack' = namespaceStack]_vars

\* a namespace opened inside another was closed and the outer one is active again
C26_Witness ==
    /\ ret.op = "exitNamespace"
    /\ Len(namespacesMap) = 2
    /\ namespace = <<namespacesMap[1][2]>>
    /\ Len(namespaceStack) = 1
\* --------------------------------------------------- allocators of a function
\* the number the next request for a name gets from counters that start at 0
NextNumber(symbols, name) == IF name \in DOMAIN symbols THEN symbols[name] + 1 ELSE 0

\* C27: a newly entered function has no local name, no update name and no memoized
\* value; in every function the first localSymbol for a name is numbered 0 and leaves
\* the update names, the memoized values and the update list alone; the first
\* updateSymbol for a value declares a fresh alias, numbered from 0 for its name, and
\* leaves the local names alone, whatever the parent and the siblings allocated
C27_AllocationPrivate ==
    [][/\ ret'.op = "enterFunction" =>
            /\ func'[Len(func')].localSymbols = EmptyObject
            /\ func'[Len(func')].updateSymbols = EmptyObject
            /\ func'[Len(func')].updateDeclarations = EmptyObject
            /\ func'[Len(func')].aliases = EmptyObject
       /\ ret'.op = "localSymbol" =>
            /\ ret'.name \notin DOMAIN Current.localSymbols =>
                  ret'.val = plainText(ret'.name, 0)
            /\ func'[Len(func')].updateSymbols = Current.updateSymbols
            /\ func'[Len(func')].updateDeclarations = Current.updateDeclarations
            /\ func'[Len(func')].update = Current.update
       /\ ret'.op = "updateSymbol" =>
            /\ ret'.value \notin DOMAIN Current.aliases =>
                  /\ ret'.val = plainText(ret'.name,
                                    NextNumber(Current.updateSymbols, ret'.name))
                  /\ func'[Len(func')].update =
                        <<Declaration(ret'.val, ret'.value)>> \o Current.update
            /\ func'[Len(func')].localSymbols = Current.localSymbols]_vars
\* -------------------------------------------------------- alias declarations
\* the declarations updateSymbol("block", value) can create, by the number of the alias
IsDeclaration(chunk, num) ==
    \E value \in DeclaredValues : chunk = Declaration(plainText("block", num), value)

DeclarationNumbers(chunk) == {num \in 0..MaxStatements : IsDeclaration(chunk, num)}

\* the update lists there are: of the open functions and of the one just exited
UpdateLists ==
    {func[i].update : i \in 1..Len(func)}
        \cup (IF ret.op = "exitFunction" THEN {ret.ctx.update} ELSE {})

\* C28: in every update list the alias declarations come before the statements
\* pushUpdate added, and a declaration created later (its alias has the higher
\* number) comes before a declaration created earlier
C28_DeclarationsFirst ==
    \A update \in UpdateLists : \A i, j \in 1..Len(update) :
       i < j =>
         /\ DeclarationNumbers(update[j]) # {} => DeclarationNumbers(update[i]) # {}
         /\ \A a \in DeclarationNumbers(update[i]), b \in DeclarationNumbers(update[j]) :
              a > b

\* two aliases were declared around a pushed statement
C28_Witness ==
    /\ HasFunc
    /\ Len(Current.update) = 3
    /\ DeclarationNumbers(Current.update[1]) = {1}
    /\ DeclarationNumbers(Current.update[2]) = {0}
    /\ Current.update[3] \in UpdateChunks
    /\ ret.op = "updateSymbol"
\* ------------------------------------------------- missing-component warnings
\* the missing-component warnings delivered for a tag name
MissingDelivered(list, tagName) ==
    {i \in 1..Len(list) : list[i].msg = MissingMessage(tagName)}

\* C29: at most one missing-component warning is ever delivered for a tag name: a
\* checkComponent call on an unregistered dashed tag name delivers the warning if none
\* was delivered for that name before, and delivers nothing otherwise
C29_WarnedOncePerTag ==
    /\ [](\A tagName \in TagNames : Cardinality(MissingDelivered(warnings, tagName)) <= 1)
    /\ [][(/\ ret'.op = "checkComponent"
           /\ options.warn
           /\ ~isComponent(ret'.name)
           /\ HasDash(ret'.name)) =>
             IF MissingDelivered(warnings, ret'.name) = {}
             THEN warnings' = Append(warnings, [msg |-> MissingMessage(ret'.name),
                                                  pos |-> ret'.pos])
             ELSE warnings' = warnings]_vars

\* a missing tag name was checked again, at another place, and the one warning
\* delivered for it is the one of the first check
C29_Witness ==
    /\ ret.op = "checkComponent"
    /\ ret.name = "x-missing"
    /\ Cardinality(MissingDelivered(warnings, "x-missing")) = 1
    /\ \A i \in MissingDelivered(warnings, "x-missing") : warnings[i].pos # ret.pos
\* ------------------------------------------------------------ keyword words
\* C30: every token that begins with an identifier-start character, `#` or `@` has
\* type name, a word that is a keyword or a literal of the language included
C30_WordsAreNames ==
    \A k \in 1..Len(parser.tokens) :
       LET t == parser.tokens[k]
           first == CharAt(parser.input, t.start)
       IN (t.type # "eof" /\ (isIdentifierStart(first) \/ first \in {"#", "@"}))
            => t.type = "name"

\* the keyword `in` was read, alone and after a sigil
C30_Witness ==
    /\ parser.state = "done"
    /\ Len(parser.tokens) = 3
    /\ parser.tokens[1].value = "in"
    /\ parser.tokens[1].type = "name"
    /\ parser.tokens[2].value = "@"
    /\ parser.tokens[2].type = "name"
====
